---- MODULE Spec2Model ----
(***************************************************************************)
(* Combat core of ai-rpg-world (server/app): attack resolution with its    *)
(* ammunition handling, the status tick, the /intent ATTACK path and the   *)
(* NPC turn, modelled on the SQL state the handlers read and write.        *)
(*                                                                         *)
(* Encodings.  A SQL NULL in items.charges is the integer NULL (-1); an    *)
(* empty hand is the id "none".  Float multipliers (resistances, crit_mult,*)
(* status intensity) are kept as integer quarters (x4), which the floats   *)
(* used here represent exactly.                                            *)
(***************************************************************************)
EXTENDS Integers, Sequences, FiniteSets, TLC

VARIABLES
    hp,        \* actors.hp                      [Actors -> Int]
    pos,       \* actors.x, actors.y             [Actors -> <<x, y>>]
    items,     \* items.charges by item id; the domain is the set of stored rows
    inv,       \* inventories: right_item, left_item, backpack (uuid[])
    objects,   \* node_objects rows that can still be picked up
    statuses,  \* actor_statuses rows in created_at order
    dead,      \* actors whose meta.dead is true
    res,       \* the response of the last handler call
    fn,        \* arguments and result of the last pure-function call
    battle,    \* battle_sessions, battle_participants and actor_skills
    node,      \* actors.node_id                 [Actors -> node id]
    tx         \* requests in flight: what each has read and written so far

vars == <<hp, pos, items, inv, objects, statuses, dead, res, fn, battle, node, tx>>

----------------------------------------------------------------------------
(* Bounds and fixtures (rows of the database the handlers run against).    *)

StartHp == 8          \* hp of every actor at the start
StartAmmo == 2        \* charges of each ammo stack and of the pistol at the start
MaxStatusRows == 1    \* rows of actor_statuses the model lets exist at once
MaxTurns == 2         \* largest turns_left passed to apply_status_db
MaxDist == 22         \* largest distance given to the accuracy functions
MagCap == 3           \* item_kinds.max_charges of the rifle
MaxTableRows == 2     \* rows of actor_statuses when the status endpoints run alone
MaxSessions == 2      \* battle_sessions rows ever created
MaxTurnIndex == 2     \* largest turn_index a session is advanced to
MaxSkills == 2        \* actor_skills rows stored at once
MaxDuration == 2      \* largest duration_turns of a skill
MaxDamage == 30       \* largest base_damage apply_armor_reduction is given
MaxCoord == 3         \* largest |x|, |y| of a cell given to _bresenham_line
MaxBlocks == 2        \* node_objects rows with block_los when check_los runs alone

NULL == -1
None == "none"

Actors == {"player", "npc"}
ActorIds == Actors \cup {"ghost"}     \* "ghost" is an id with no actors row

ActorKind == [player |-> "player", npc |-> "npc"]

\* actors.node_id when every actor stands in the same node
OneNode == [a \in Actors |-> "forest"]

\* actors.meta -> acc_bonus / evasion, actors.resistances (quarters), and the
\* armor_level of the kind in inventories.equipped_armor
ActorMeta ==
    [player |-> [acc_bonus |-> 0, evasion |-> 0],
     npc    |-> [acc_bonus |-> 0, evasion |-> 10]]

Resistances ==
    [player |-> [physical |-> 4, pierce |-> 4],
     npc    |-> [physical |-> 4, pierce |-> 2]]

EquippedArmorLevel == [player |-> 0, npc |-> 2]

\* item_kinds rows.  0 in max_range / opt_range / hit_bonus / crit_chance and
\* NULL in damage stand for a SQL NULL (the code reads them with "or 0").
Kinds ==
    [sword  |-> [weapon_class |-> "melee",  damage_type |-> "physical",
                 opt_range |-> 1, max_range |-> 0, crit_chance |-> 5,
                 hit_bonus |-> 0, ammo_type |-> "", is_bow |-> FALSE,
                 damage |-> NULL, crit_mult4 |-> NULL, max_charges |-> 0],
     pistol |-> [weapon_class |-> "ranged", damage_type |-> "physical",
                 opt_range |-> 2, max_range |-> 3, crit_chance |-> 5,
                 hit_bonus |-> 0, ammo_type |-> "small", is_bow |-> FALSE,
                 damage |-> 6, crit_mult4 |-> NULL, max_charges |-> 2],
     rifle  |-> [weapon_class |-> "ranged", damage_type |-> "physical",
                 opt_range |-> 3, max_range |-> 3, crit_chance |-> 5,
                 hit_bonus |-> 0, ammo_type |-> "small", is_bow |-> FALSE,
                 damage |-> 6, crit_mult4 |-> NULL, max_charges |-> MagCap],
     wand   |-> [weapon_class |-> "ranged", damage_type |-> "physical",
                 opt_range |-> 2, max_range |-> 3, crit_chance |-> 5,
                 hit_bonus |-> 0, ammo_type |-> "", is_bow |-> FALSE,
                 damage |-> 4, crit_mult4 |-> NULL, max_charges |-> 2],
     bow    |-> [weapon_class |-> "ranged", damage_type |-> "pierce",
                 opt_range |-> 2, max_range |-> 2, crit_chance |-> 5,
                 hit_bonus |-> -10, ammo_type |-> "arrow", is_bow |-> TRUE,
                 damage |-> 4, crit_mult4 |-> 6, max_charges |-> 0],
     dagger |-> [weapon_class |-> "melee",  damage_type |-> "pierce",
                 opt_range |-> 1, max_range |-> 0, crit_chance |-> 70,
                 hit_bonus |-> -40, ammo_type |-> "", is_bow |-> FALSE,
                 damage |-> 3, crit_mult4 |-> 10, max_charges |-> 0],
     arrows |-> [weapon_class |-> "", damage_type |-> "",
                 opt_range |-> 0, max_range |-> 0, crit_chance |-> 0,
                 hit_bonus |-> 0, ammo_type |-> "arrow", is_bow |-> FALSE,
                 damage |-> NULL, crit_mult4 |-> NULL, max_charges |-> 0],
     bullets |-> [weapon_class |-> "", damage_type |-> "",
                 opt_range |-> 0, max_range |-> 0, crit_chance |-> 0,
                 hit_bonus |-> 0, ammo_type |-> "small", is_bow |-> FALSE,
                 damage |-> NULL, crit_mult4 |-> NULL, max_charges |-> 0]]

\* items.kind_id
KindOf ==
    [w_sword |-> "sword", w_pistol |-> "pistol", w_bow |-> "bow",
     w_rifle |-> "rifle", w_wand |-> "wand", w_dagger |-> "dagger",
     n_sword |-> "sword",
     arrows1 |-> "arrows", bullets1 |-> "bullets", bullets2 |-> "bullets",
     p_empty |-> "arrows", p_full |-> "arrows"]

ItemIds == DOMAIN KindOf
HandWeapons == {"w_sword", "w_pistol", "w_bow"}

\* pickupable node_objects rows: pickup_kind_id is KindOf of the item the
\* pickup creates, pickup_charges is what that item starts with
PickupObjects == {"o_empty", "o_full"}
PickupItem == [o_empty |-> "p_empty", o_full |-> "p_full"]
PickupCharges == [o_empty |-> 0, o_full |-> StartAmmo]

\* node_objects rows with props.block_los = true
BlockCells == {<<1, 0>>}

\* cells the npc can start on: adjacent on the blocking cell, behind it,
\* off-axis, three cells away on the axis, and diagonal-adjacent
NpcCells == {<<1, 0>>, <<2, 0>>, <<2, 1>>, <<0, 3>>, <<1, 1>>}

\* values random.randint(1, 100) is let to return
Rolls == {5, 6, 60, 61, 96}

KindRow(item) == Kinds[KindOf[item]]

Abs(n) == IF n < 0 THEN -n ELSE n
Max(a, b) == IF a >= b THEN a ELSE b
Min(a, b) == IF a <= b THEN a ELSE b
Has(events, e) == \E i \in 1..Len(events) : events[i] = e
Remove(seq, x) == SelectSeq(seq, LAMBDA y : y # x)
SeqToSet(seq) == {seq[i] : i \in 1..Len(seq)}

\* Python round(): n / d rounded to the nearest integer, ties to even (n, d >= 0)
RoundHalfEven(n, d) ==
    LET q == n \div d
        r2 == 2 * (n % d)
    IN  IF r2 < d THEN q
        ELSE IF r2 > d THEN q + 1
        ELSE IF q % 2 = 0 THEN q ELSE q + 1

----------------------------------------------------------------------------
(* Geometry: dao.py "COMBAT GEOMETRY"                                      *)

_chebyshev_distance(a, b) == Max(Abs(b[1] - a[1]), Abs(b[2] - a[2]))

_aligned(a, b) ==
    LET dx == Abs(b[1] - a[1])
        dy == Abs(b[2] - a[2])
    IN  dx = 0 \/ dy = 0 \/ dx = dy

\* variant of _bresenham_line that yields the start cell too
_bresenham_line_WithStart(a, b) ==
    LET dx == Abs(b[1] - a[1])
        dy == -Abs(b[2] - a[2])
        sx == IF a[1] < b[1] THEN 1 ELSE -1
        sy == IF a[2] < b[2] THEN 1 ELSE -1
        RECURSIVE Walk(_, _, _)
        Walk(x, y, err) ==
            IF x = b[1] /\ y = b[2] THEN << <<x, y>> >>
            ELSE LET e2 == 2 * err
                     stepx == e2 >= dy
                     err1 == IF stepx THEN err + dy ELSE err
                     stepy == e2 <= dx
                 IN  << <<x, y>> >>
                       \o Walk(IF stepx THEN x + sx ELSE x,
                               IF stepy THEN y + sy ELSE y,
                               IF stepy THEN err1 + dx ELSE err1)
    IN  Walk(a[1], a[2], dx + dy)

\* the cells of the generator, in order: the start cell excluded, the end included
_bresenham_line(a, b) ==
    LET dx == Abs(b[1] - a[1])
        dy == -Abs(b[2] - a[2])
        sx == IF a[1] < b[1] THEN 1 ELSE -1
        sy == IF a[2] < b[2] THEN 1 ELSE -1
        RECURSIVE Walk(_, _, _, _)
        Walk(x, y, err, first) ==
            LET out == IF first THEN <<>> ELSE << <<x, y>> >>
            IN  IF x = b[1] /\ y = b[2] THEN out
                ELSE LET e2 == 2 * err
                         stepx == e2 >= dy
                         err1 == IF stepx THEN err + dy ELSE err
                         x1 == IF stepx THEN x + sx ELSE x
                         stepy == e2 <= dx
                         err2 == IF stepy THEN err1 + dx ELSE err1
                         y1 == IF stepy THEN y + sy ELSE y
                     IN  out \o Walk(x1, y1, err2, FALSE)
    IN  Walk(a[1], a[2], dx + dy, TRUE)

\* blocks: the cells of the node that hold a node_objects row with block_los
_cell_blocks_los(blocks, c) == c \in blocks

\* variant of check_los that tests the final cell like any other
check_los_EndBlocks(blocks, a, b) ==
    \A c \in {_bresenham_line(a, b)[i] : i \in 1..Len(_bresenham_line(a, b))} :
        ~_cell_blocks_los(blocks, c)

check_los(blocks, a, b) ==
    LET line == _bresenham_line(a, b)
        RECURSIVE Scan(_)
        Scan(i) ==
            IF i > Len(line) THEN TRUE
            ELSE IF line[i] = b THEN TRUE
            ELSE IF _cell_blocks_los(blocks, line[i]) THEN FALSE
            ELSE Scan(i + 1)
    IN  Scan(1)

----------------------------------------------------------------------------
(* Accuracy                                                                *)

\* variant of ClampAccuracy that clamps nothing
ClampAccuracy_None(acc) == acc

\* max(5, min(95, accuracy))
ClampAccuracy(acc) == Max(5, Min(95, acc))

_estimate_accuracy(dist, aligned, opt_range, hit_bonus) ==
    LET a1 == IF aligned THEN 100 ELSE 100 - 30
        a2 == IF dist > opt_range THEN a1 - (dist - opt_range) * 5 ELSE a1
    IN  ClampAccuracy(a2 + hit_bonus)

\* the accuracy perform_attack_db compares the roll with.  min_r and
\* near_penalty are weapon.get("min_range") / weapon.get("near_penalty").
AttackAccuracy(dist, aligned, opt_r, hit_bonus, is_bow, is_ranged, min_r, near_penalty, atk_acc, tgt_eva) ==
    LET a1 == IF aligned THEN 100 ELSE 100 - 30
        a2 == a1 - Max(0, dist - opt_r) * 5
        a3 == a2 + hit_bonus
        close_pen == (min_r - dist) * (IF near_penalty = 0 THEN 10 ELSE near_penalty)
        a4 == IF is_bow /\ min_r > 0 /\ is_ranged /\ dist < min_r /\ close_pen > 0
              THEN a3 - close_pen ELSE a3
    IN  ClampAccuracy(a4 + atk_acc - tgt_eva)

\* the attacker query of perform_attack_db selects neither min_range nor
\* near_penalty, so weapon.get(...) is None and both read as 0
RowMinRange(item) == 0
RowNearPenalty(item) == 0

----------------------------------------------------------------------------
(* Charges and ammunition                                                  *)

_get_item_charges(its, item) == its[item]

\* variant of _spend_one_charge that leaves the counter as it is
_spend_one_charge_Kept(its, item) == its

\* UPDATE items SET charges = CASE ... END: the items table afterwards
_spend_one_charge(its, item) ==
    [its EXCEPT ![item] = IF @ = NULL THEN NULL
                          ELSE IF @ > 0 THEN @ - 1 ELSE @]

_weapon_ammo_type_for_item(item) == KindRow(item).ammo_type

\* the rows the LIMIT 1 query of _find_ammo_in_backpack can return: it has no
\* ORDER BY, so any matching row of the backpack may come first
_find_ammo_in_backpack(its, backpack, ammo_type) ==
    {i \in SeqToSet(backpack) \cap DOMAIN its : KindRow(i).ammo_type = ammo_type}

\* _consume_one_ammo_from_backpack: does it delete the stack, and the state after
AmmoDeleted(its, ammo) == its[ammo] = NULL \/ its[ammo] <= 1

ItemsAfterConsume(its, ammo) ==
    IF AmmoDeleted(its, ammo)
    THEN [i \in DOMAIN its \ {ammo} |-> its[i]]
    ELSE [its EXCEPT ![ammo] = @ - 1]

BackpackAfterConsume(its, backpack, ammo) ==
    IF AmmoDeleted(its, ammo) THEN Remove(backpack, ammo) ELSE backpack

AmmoLeft(its, ammo) == IF AmmoDeleted(its, ammo) THEN 0 ELSE its[ammo] - 1

----------------------------------------------------------------------------
(* Damage                                                                  *)

\* base = weapon["base_damage"] or 5
BaseDamage(item) == IF KindRow(item).damage = NULL \/ KindRow(item).damage = 0
                    THEN 5 ELSE KindRow(item).damage

\* crit_mult from props, 2.0 by default (quarters)
CritMult4(item) == IF KindRow(item).crit_mult4 = NULL THEN 8
                   ELSE KindRow(item).crit_mult4

\* variant of IsCrit with a strict comparison
IsCrit_Strict(item, roll) == roll < KindRow(item).crit_chance

\* crit = roll <= (weapon["crit_chance"] or 0)
IsCrit(item, roll) == roll <= KindRow(item).crit_chance

\* base after the crit step: int(round(base * crit_mult)) on a crit
CritDamage(item, roll) ==
    IF IsCrit(item, roll)
    THEN RoundHalfEven(BaseDamage(item) * CritMult4(item), 4)
    ELSE BaseDamage(item)

\* tgt["resistances"].get(dmg_type), 1.0 when absent (quarters)
ResistMod4(target, item) ==
    LET t == IF KindRow(item).damage_type = "" THEN "physical"
             ELSE KindRow(item).damage_type
    IN  Resistances[target][t]

\* final_dmg = max(1, int(base * resist_mod))
FinalDamage(base, resist4) == Max(1, (base * resist4) \div 4)

\* variant of HpAfterDamage without the floor
HpAfterDamage_Unfloored(h, dmg) == h - dmg

\* UPDATE actors SET hp = GREATEST(hp - :dmg, 0); the tick, /intent and the
\* NPC placeholder attack write hp with the same GREATEST(0, hp - dmg)
HpAfterDamage(h, dmg) == Max(h - dmg, 0)

----------------------------------------------------------------------------
(* Armor (services/armor.py) and status modifiers (services/status_mods.py) *)

\* armor_level of the kind in inventories.equipped_armor, 0 without a row
effective_armor_level(actor) == EquippedArmorLevel[actor]

\* variant of apply_armor_reduction that takes the level as it comes
apply_armor_reduction_NoClamp(base_damage, armor_level) ==
    LET b == IF base_damage < 1 THEN 1 ELSE base_damage
    IN  Max(1, b - ((b * armor_level) \div 10))

\* base_damage - int(base_damage * 0.1 * clamp(armor_level, 0, 5)), at least 1
apply_armor_reduction(base_damage, armor_level) ==
    LET b == IF base_damage < 1 THEN 1 ELSE base_damage
        lvl == Max(0, Min(5, armor_level))
    IN  Max(1, b - ((b * lvl) \div 10))

\* meta of a row that carries none of the four keys
NoMeta ==
    [accuracy_mod_attacker |-> 0, damage_bonus_attacker |-> 0,
     damage_mult_attacker4 |-> 4, armor_bonus_target |-> 0]

\* variant of get_status_combat_mods that moves a product outside [0.1, 5.0]
\* to the nearer end of the range (0.1 is 1/10, 5.0 is 5/1)
get_status_combat_mods_Clamp(rows, attacker_id, target_id) ==
    LET live == SelectSeq(rows, LAMBDA r : r.actor_id = attacker_id /\ r.turns_left > 0)
        RECURSIVE Prod(_)
        Prod(i) == IF i > Len(live) THEN <<1, 1>>
                   ELSE <<live[i].meta.damage_mult_attacker4 * Prod(i + 1)[1],
                          4 * Prod(i + 1)[2]>>
        p == Prod(1)
    IN  [accuracy_mod_attacker |-> 0, damage_bonus_attacker |-> 0,
         armor_bonus_target |-> 0,
         mult_num |-> IF 10 * p[1] < p[2] THEN 1
                      ELSE IF p[1] > 5 * p[2] THEN 5 ELSE p[1],
         mult_den |-> IF 10 * p[1] < p[2] THEN 10
                      ELSE IF p[1] > 5 * p[2] THEN 1 ELSE p[2]]

\* the aggregate over the rows of attacker and target with turns_left > 0.
\* damage_mult_attacker is the exact product mult_num / mult_den; outside
\* [0.1, 5.0] it is put back to 1.0
get_status_combat_mods(rows, attacker_id, target_id) ==
    LET live == SelectSeq(rows, LAMBDA r : r.actor_id \in {attacker_id, target_id}
                                           /\ r.turns_left > 0)
        RECURSIVE Fold(_, _)
        Fold(i, m) ==
            IF i > Len(live) THEN m
            ELSE LET r == live[i]
                 IN  IF r.actor_id = attacker_id
                     THEN Fold(i + 1,
                            [m EXCEPT
                               !.accuracy_mod_attacker = @ + r.meta.accuracy_mod_attacker,
                               !.damage_bonus_attacker = @ + r.meta.damage_bonus_attacker,
                               !.mult_num = @ * r.meta.damage_mult_attacker4,
                               !.mult_den = @ * 4])
                     ELSE Fold(i + 1,
                            [m EXCEPT
                               !.armor_bonus_target = @ + r.meta.armor_bonus_target])
        agg == Fold(1, [accuracy_mod_attacker |-> 0, damage_bonus_attacker |-> 0,
                        mult_num |-> 1, mult_den |-> 1, armor_bonus_target |-> 0])
    IN  IF 10 * agg.mult_num >= agg.mult_den /\ agg.mult_num <= 5 * agg.mult_den
        THEN agg
        ELSE [agg EXCEPT !.mult_num = 1, !.mult_den = 1]

----------------------------------------------------------------------------
(* Responses                                                               *)

NoReply ==
    [op |-> "none", ok |-> TRUE, error |-> "", events |-> <<>>,
     attacker |-> "", target |-> "", item |-> None, reason |-> "",
     accuracy |-> 0, roll |-> 0, base |-> 0, final |-> 0, left |-> NULL,
     loaded |-> 0, used |-> <<>>,
     status |-> "", turns_left |-> 0, stacks |-> 0, intensity4 |-> 0,
     log |-> <<>>,
     session_id |-> 0, created |-> FALSE, turn_index |-> 0, participants |-> <<>>,
     actor_ids |-> <<>>, label |-> "", duration_turns |-> 0]

\* fn when no pure function has been called
NoArgs ==
    [dist |-> 0, aligned |-> TRUE, opt_range |-> 0, hit_bonus |-> 0,
     is_bow |-> FALSE, is_ranged |-> FALSE, min_range |-> 0, near_penalty |-> 0,
     acc_bonus |-> 0, evasion |-> 0]

NoCall == [f |-> "none", args |-> NoArgs, out |-> 0]

\* the battle tables with no row: sessions in the order of their creation (a
\* session's id is its place), participants in join_order, skills in id order
NoBattle == [sessions |-> <<>>, participants |-> <<>>, skills |-> <<>>]

\* tx when no attack resolution is in flight
NoTx == <<>>

\* variant of StartOnly that puts the informational event before ATTACK_START
StartOnly_EventFirst(attacker, target, item, event, reason) ==
    [NoReply EXCEPT !.op = "attack", !.attacker = attacker, !.target = target,
                    !.item = item, !.events = <<event, "ATTACK_START">>,
                    !.reason = reason]

\* the events of the three early returns between the LOS check and the ammo check
StartOnly(attacker, target, item, event, reason) ==
    [NoReply EXCEPT !.op = "attack", !.attacker = attacker, !.target = target,
                    !.item = item, !.events = <<"ATTACK_START", event>>,
                    !.reason = reason]

----------------------------------------------------------------------------
(* perform_attack_db                                                       *)

\* LEFT JOIN items i ON i.id = inv.right_item: the attacker's weapon, or None
RightHandItem(attacker) ==
    IF attacker \in Actors /\ inv[attacker].right_item \in DOMAIN items
    THEN inv[attacker].right_item ELSE None

\* variant of PreconditionFailure without the melee adjacency rule
PreconditionFailure_NoMeleeRule(apos, tpos, item) ==
    LET dist == _chebyshev_distance(apos, tpos)
        max_r == KindRow(item).max_range
    IN  IF ~check_los(BlockCells, apos, tpos) THEN "los"
        ELSE IF max_r > 0 /\ dist > max_r THEN "max_range"
        ELSE ""

\* the three checks made before any ammunition is touched: "" when all pass
PreconditionFailure(apos, tpos, item) ==
    LET dist == _chebyshev_distance(apos, tpos)
        max_r == KindRow(item).max_range
    IN  IF ~check_los(BlockCells, apos, tpos) THEN "los"
        ELSE IF max_r > 0 /\ dist > max_r THEN "max_range"
        ELSE IF KindRow(item).weapon_class = "melee" /\ dist # 1
             THEN "melee_requires_adjacent"
        ELSE ""

\* variant of AmmoSource that sends every weapon without a counter to the backpack
AmmoSource_AlwaysBackpack(its, item) ==
    IF _get_item_charges(its, item) # NULL THEN "own" ELSE "backpack"

\* which ammunition branch the weapon takes: its own counter, a stack of the
\* backpack, or none at all
AmmoSource(its, item) ==
    IF _get_item_charges(its, item) # NULL THEN "own"
    ELSE IF _weapon_ammo_type_for_item(item) # "" THEN "backpack"
    ELSE "uncounted"

\* accuracy of the attack of attacker on target with item, from the rows read
RowAccuracy(attacker, target, item) ==
    AttackAccuracy(_chebyshev_distance(pos[attacker], pos[target]),
                   _aligned(pos[attacker], pos[target]),
                   KindRow(item).opt_range, KindRow(item).hit_bonus,
                   KindRow(item).is_bow,
                   KindRow(item).weapon_class = "ranged",
                   RowMinRange(item), RowNearPenalty(item),
                   ActorMeta[attacker].acc_bonus, ActorMeta[target].evasion)

\* variant of IsHit with a strict comparison
IsHit_Strict(roll, accuracy) == roll < accuracy

\* if roll > accuracy: miss
IsHit(roll, accuracy) == ~(roll > accuracy)

\* everything from "старт атаки" on: its1 / bp1 are the items table and the
\* attacker's backpack after the ammunition step, ammo_events what it emitted
Resolve(attacker, target, item, roll, its1, bp1, ammo_events, left) ==
    LET accuracy == RowAccuracy(attacker, target, item)
        head == <<"ATTACK_START">> \o ammo_events \o <<"HIT_ROLL">>
        base == CritDamage(item, roll)
        final == FinalDamage(base, ResistMod4(target, item))
        nhp == HpAfterDamage(hp[target], final)
        reply == [NoReply EXCEPT !.op = "attack", !.attacker = attacker,
                                 !.target = target, !.item = item,
                                 !.accuracy = accuracy, !.roll = roll,
                                 !.left = left]
    IN  /\ items' = its1
        /\ inv' = [inv EXCEPT ![attacker].backpack = bp1]
        /\ IF ~IsHit(roll, accuracy)
           THEN /\ hp' = hp
                /\ res' = [reply EXCEPT !.events = head \o <<"ATTACK_MISS">>]
           ELSE /\ hp' = [hp EXCEPT ![target] = nhp]
                /\ res' = [reply EXCEPT
                      !.base = base, !.final = final,
                      !.events = head
                          \o (IF IsCrit(item, roll) THEN <<"ATTACK_CRIT">> ELSE <<>>)
                          \o <<"RESIST_APPLY", "DAMAGE_APPLY", "ATTACK_HIT">>
                          \o (IF nhp <= 0 THEN <<"DEATH">> ELSE <<>>)]

\* the reply of perform_attack_db and the rows of actors, items and
\* inventories it leaves
AttackResolution(attacker, target, roll) ==
    LET item == RightHandItem(attacker)
    IN  IF item = None
           THEN /\ res' = [NoReply EXCEPT !.op = "attack", !.attacker = attacker,
                               !.target = target, !.events = <<"NO_WEAPON">>]
                /\ UNCHANGED <<hp, items, inv>>
           ELSE IF target \notin Actors
           THEN /\ res' = [NoReply EXCEPT !.op = "attack", !.attacker = attacker,
                               !.target = target, !.item = item, !.ok = FALSE,
                               !.error = "target_not_found"]
                /\ UNCHANGED <<hp, items, inv>>
           ELSE LET fail == PreconditionFailure(pos[attacker], pos[target], item)
                    src == AmmoSource(items, item)
                    found == _find_ammo_in_backpack(items, inv[attacker].backpack,
                                 _weapon_ammo_type_for_item(item))
                IN  IF fail # ""
                    THEN /\ res' = StartOnly(attacker, target, item,
                                 IF fail = "los" THEN "LOS_BLOCKED"
                                 ELSE "ATTACK_OUT_OF_RANGE", fail)
                         /\ UNCHANGED <<hp, items, inv>>
                    ELSE IF \/ src = "own" /\ _get_item_charges(items, item) <= 0
                            \/ src = "backpack" /\ found = {}
                    THEN /\ res' = StartOnly(attacker, target, item, "NO_AMMO", "")
                         /\ UNCHANGED <<hp, items, inv>>
                    ELSE IF src = "own"
                    THEN LET its1 == _spend_one_charge(items, item)
                         IN  Resolve(attacker, target, item, roll, its1,
                                 inv[attacker].backpack,
                                 <<"CONSUME">> \o
                                   (IF its1[item] = 0
                                    THEN <<"AMMO_EMPTY", "RELOAD_HINT">> ELSE <<>>),
                                 its1[item])
                    ELSE IF src = "backpack"
                    THEN \E ammo \in found :
                             Resolve(attacker, target, item, roll,
                                 ItemsAfterConsume(items, ammo),
                                 BackpackAfterConsume(items, inv[attacker].backpack, ammo),
                                 <<"AMMO_CONSUME">> \o
                                   (IF AmmoDeleted(items, ammo)
                                    THEN <<"AMMO_DEPLETED">> ELSE <<>>),
                                 AmmoLeft(items, ammo))
                    ELSE Resolve(attacker, target, item, roll, items,
                                 inv[attacker].backpack, <<>>, NULL)

perform_attack_db(attacker, target, roll) ==
    /\ UNCHANGED <<pos, objects, statuses, dead, fn, battle, node, tx>>
    /\ AttackResolution(attacker, target, roll)

Attack == \E attacker \in Actors, target \in ActorIds, roll \in Rolls :
              perform_attack_db(attacker, target, roll)

----------------------------------------------------------------------------
(* POST /world/pickup (routers/assets.py): the picked-up item always goes  *)
(* to the backpack of 'player'                                             *)

pickup_object(o) ==
    /\ o \in objects
    /\ items' = [i \in DOMAIN items \cup {PickupItem[o]} |->
                    IF i = PickupItem[o] THEN PickupCharges[o] ELSE items[i]]
    /\ inv' = [inv EXCEPT !["player"].backpack = Append(@, PickupItem[o])]
    /\ objects' = objects \ {o}
    /\ res' = [NoReply EXCEPT !.op = "pickup", !.item = PickupItem[o]]
    /\ UNCHANGED <<hp, pos, statuses, dead, fn, battle, node, tx>>

Pickup == \E o \in PickupObjects : pickup_object(o)

----------------------------------------------------------------------------
(* Specification of the attack resolution                                  *)

InitItems ==
    [i \in {"w_sword", "w_pistol", "w_bow", "n_sword", "arrows1", "bullets1"} |->
        IF i \in {"w_pistol", "arrows1", "bullets1"} THEN StartAmmo ELSE NULL]

InitInv(weapon) ==
    [player |-> [right_item |-> weapon, left_item |-> None,
                 backpack |-> <<"arrows1", "bullets1">>],
     npc    |-> [right_item |-> None, left_item |-> "n_sword",
                 backpack |-> <<>>]]

Init ==
    /\ hp = [a \in Actors |-> StartHp]
    /\ \E c \in NpcCells : pos = [player |-> <<0, 0>>, npc |-> c]
    /\ items = InitItems
    /\ \E w \in HandWeapons : inv = InitInv(w)
    /\ objects = PickupObjects
    /\ statuses = <<>>
    /\ dead = {}
    /\ res = NoReply
    /\ fn = NoCall
    /\ battle = NoBattle
    /\ node = OneNode
    /\ tx = NoTx

Next == Attack \/ Pickup

Spec == Init /\ [][Next]_vars

----------------------------------------------------------------------------
(* Status engine (dao_status.py).  A row of actor_statuses is              *)
(* [actor_id, status_id, turns_left, stacks, intensity4, meta].            *)

\* variant of the lookup that finds an effect for every status_id
HasEffect_Any(status_id) == TRUE

\* _EFFECT_MAP.get(status_id) exists
HasEffect(status_id) == status_id \in {"burn", "bleed", "guard", "rage"}

\* int(effect.get("dmg") or 0) of the row: _effect_burn, _effect_bleed;
\* stacks and intensity are read with "or 1" / "or 1.0"
EffectDmg(r) ==
    LET stacks == IF r.stacks = 0 THEN 1 ELSE r.stacks
        intensity4 == IF r.intensity4 = 0 THEN 4 ELSE r.intensity4
    IN  IF r.status_id = "burn" THEN Max(0, RoundHalfEven(intensity4 * 2, 4))
        ELSE IF r.status_id = "bleed" THEN Max(0, stacks)
        ELSE 0

\* index of the row with the key (actor_id, status_id), 0 when there is none
RowIndex(rows, actor_id, status_id) ==
    IF \E i \in 1..Len(rows) : rows[i].actor_id = actor_id /\ rows[i].status_id = status_id
    THEN CHOOSE i \in 1..Len(rows) :
             rows[i].actor_id = actor_id /\ rows[i].status_id = status_id
    ELSE 0

\* variant of the upsert that adds the new duration to the stored one
apply_status_db_AddTurns(rows, actor_id, status_id, turns_left, intensity4, stacks) ==
    LET i == RowIndex(rows, actor_id, status_id)
    IN  IF i = 0
        THEN Append(rows, [actor_id |-> actor_id, status_id |-> status_id,
                           turns_left |-> turns_left, stacks |-> stacks,
                           intensity4 |-> intensity4, meta |-> NoMeta])
        ELSE [rows EXCEPT ![i].turns_left = @ + turns_left, ![i].stacks = stacks,
                          ![i].intensity4 = intensity4]

\* INSERT ... ON CONFLICT (actor_id, status_id) DO UPDATE: the table afterwards
apply_status_db(rows, actor_id, status_id, turns_left, intensity4, stacks) ==
    LET i == RowIndex(rows, actor_id, status_id)
    IN  IF i = 0
        THEN Append(rows, [actor_id |-> actor_id, status_id |-> status_id,
                           turns_left |-> turns_left, stacks |-> stacks,
                           intensity4 |-> intensity4, meta |-> NoMeta])
        ELSE [rows EXCEPT ![i].turns_left = turns_left, ![i].stacks = stacks,
                          ![i].intensity4 = intensity4]

\* variant of the decrement that takes two turns at once
TurnsLeftAfterTick_Two(turns_left) == turns_left - 2

\* UPDATE actor_statuses SET turns_left = turns_left - 1 ... RETURNING turns_left
TurnsLeftAfterTick(turns_left) == turns_left - 1

\* an event of the tick: its type and the actor_id, status and dmg of its payload
Event(type, r, dmg) ==
    [type |-> type, actor_id |-> r.actor_id, status |-> r.status_id, dmg |-> dmg]

\* advance_statuses_db on hp h and table rows: hp and table afterwards, the
\* types of the events returned (events) and the events themselves (log)
advance_statuses_db(h, rows) ==
    LET RECURSIVE Tick(_, _, _, _)
        Tick(i, h1, st, ev) ==
            IF i > Len(rows)
            THEN [hp |-> h1,
                  statuses |-> SelectSeq(st, LAMBDA r : r.turns_left > 0),
                  events |-> [k \in 1..Len(ev) |-> ev[k].type],
                  log |-> ev]
            ELSE LET r == rows[i]
                     dmg == EffectDmg(r)
                     h2 == IF dmg > 0
                           THEN [h1 EXCEPT ![r.actor_id] = HpAfterDamage(@, dmg)]
                           ELSE h1
                     ev1 == IF dmg > 0 \/ HasEffect(r.status_id)
                            THEN Append(ev, Event("STATUS_TICK", r, dmg)) ELSE ev
                     j == RowIndex(st, r.actor_id, r.status_id)
                     left == TurnsLeftAfterTick(st[j].turns_left)
                     st1 == IF left <= 0
                            THEN SelectSeq(st, LAMBDA x : ~(x.actor_id = r.actor_id
                                                           /\ x.status_id = r.status_id))
                            ELSE [st EXCEPT ![j].turns_left = left]
                     ev2 == IF left <= 0
                            THEN Append(ev1, Event("STATUS_EXPIRE", r, 0)) ELSE ev1
                 IN  Tick(i + 1, h2, st1, ev2)
    IN  Tick(1, h, rows, <<>>)

\* main.py _status_mods_for_actor: outgoing / incoming multipliers (quarters)
\* from the rows get_statuses_db returns (turns_left > 0)
_status_mods_for_actor(rows, actor_id) ==
    LET active(sid) == \E i \in 1..Len(rows) :
                          /\ rows[i].actor_id = actor_id
                          /\ rows[i].status_id = sid
                          /\ rows[i].turns_left > 0
    IN  [outgoing_mult4 |-> IF active("rage") THEN 6 ELSE 4,
         incoming_mult4 |-> IF active("guard") THEN 2 ELSE 4]

----------------------------------------------------------------------------
(* The world turn: status endpoints (routers/status.py), POST /intent with *)
(* type ATTACK (main.py) and POST /world/turn/advance (dao_turn.py with    *)
(* services/dao_ai.py).  Every actor is in the one node.                   *)

\* nodes.content.terrain: the cells of the grid and those with "tree" / "rock"
TerrainCells == (0..2) \X (0..3)
BlockingTiles == {}

\* the requests POST /world/status/apply and status_apply of /intent are given
BurnPreset == [status_id |-> "burn", intensity4 |-> 10, stacks |-> 1]

StatusPresets ==
    {BurnPreset,
     [status_id |-> "bleed", intensity4 |-> 4,  stacks |-> 2],
     [status_id |-> "rage",  intensity4 |-> 4,  stacks |-> 1],
     [status_id |-> "guard", intensity4 |-> 4,  stacks |-> 1]}

\* status_apply of an /intent payload that carries none
NoStatus == [status_id |-> "", intensity4 |-> 0, stacks |-> 0]

\* base_damage values of the /intent payload
IntentDamages == {-3, 3, 20}

\* the table has room for the row (actor_id, status_id)
RoomFor(actor_id, status_id) ==
    RowIndex(statuses, actor_id, status_id) # 0 \/ Len(statuses) < MaxStatusRows

\* POST /world/status/apply
apply_status(actor_id, p, turns_left) ==
    /\ IF actor_id \notin Actors
       THEN /\ res' = [NoReply EXCEPT !.op = "status_apply", !.ok = FALSE,
                                      !.error = "actor_not_found",
                                      !.target = actor_id]
            /\ UNCHANGED statuses
       ELSE /\ statuses' = apply_status_db(statuses, actor_id, p.status_id,
                                turns_left, p.intensity4, p.stacks)
            /\ res' = [NoReply EXCEPT !.op = "status_apply", !.target = actor_id,
                                      !.status = p.status_id,
                                      !.turns_left = turns_left,
                                      !.stacks = p.stacks,
                                      !.intensity4 = p.intensity4,
                                      !.events = <<"STATUS_APPLY">>]
    /\ UNCHANGED <<hp, pos, items, inv, objects, dead, fn, battle, node, tx>>

ApplyStatus == \E actor_id \in ActorIds, p \in StatusPresets, t \in 1..MaxTurns :
                   /\ actor_id \in Actors => RoomFor(actor_id, p.status_id)
                   /\ apply_status(actor_id, p, t)

\* POST /world/status/advance_turn
advance_turn_status ==
    LET out == advance_statuses_db(hp, statuses)
    IN  /\ hp' = out.hp
        /\ statuses' = out.statuses
        /\ res' = [NoReply EXCEPT !.op = "status_advance", !.events = out.events,
                                  !.log = out.log]
        /\ UNCHANGED <<pos, items, inv, objects, dead, fn, battle, node, tx>>

AdvanceStatuses == advance_turn_status

\* dmg = max(0, int(round(base_damage * outgoing_mult * incoming_mult)))
IntentDamage(base_damage, out4, in4) ==
    IF base_damage <= 0 THEN 0
    ELSE Max(0, RoundHalfEven(base_damage * out4 * in4, 16))

\* handle_actor_death: everything carried goes to the loot object of the cell
EmptyInventory == [right_item |-> None, left_item |-> None, backpack |-> <<>>]

\* POST /intent, type ATTACK: _apply_attack_and_optionally_status, then the tick.
\* status_apply is a preset or NoStatus.
post_intent(attacker_id, target_id, base_damage, status_apply) ==
    LET reply == [NoReply EXCEPT !.op = "intent", !.attacker = attacker_id,
                                 !.target = target_id]
    IN  /\ UNCHANGED <<pos, items, objects, fn, battle, node, tx>>
        /\ IF target_id \notin Actors
           THEN /\ res' = [reply EXCEPT !.events = <<"TEXT">>, !.reason = "not_found"]
                /\ UNCHANGED <<hp, inv, statuses, dead>>
           ELSE IF hp[target_id] <= 0 \/ target_id \in dead
           THEN /\ res' = [reply EXCEPT !.events = <<"TEXT">>, !.reason = "dead"]
                /\ UNCHANGED <<hp, inv, statuses, dead>>
           ELSE LET dmg == IntentDamage(base_damage,
                               _status_mods_for_actor(statuses, attacker_id).outgoing_mult4,
                               _status_mods_for_actor(statuses, target_id).incoming_mult4)
                    new_hp == HpAfterDamage(hp[target_id], dmg)
                    hp1 == [hp EXCEPT ![target_id] = new_hp]
                    st1 == IF status_apply.status_id = "" THEN statuses
                           ELSE apply_status_db(statuses, target_id,
                                    status_apply.status_id, 1,
                                    status_apply.intensity4, status_apply.stacks)
                    out == advance_statuses_db(hp1, st1)
                IN  /\ status_apply.status_id # "" => RoomFor(target_id, status_apply.status_id)
                    /\ hp' = out.hp
                    /\ statuses' = out.statuses
                    /\ inv' = IF new_hp = 0
                              THEN [inv EXCEPT ![target_id] = EmptyInventory] ELSE inv
                    /\ dead' = IF new_hp = 0 THEN dead \cup {target_id} ELSE dead
                    /\ res' = [reply EXCEPT
                          !.base = base_damage, !.final = dmg,
                          !.events = <<"ATTACK_RESOLVE">>
                              \o (IF status_apply.status_id = "" THEN <<>>
                                  ELSE <<"STATUS_APPLY">>)
                              \o out.events]

IntentAttack ==
    \E attacker_id \in Actors, target_id \in ActorIds, base_damage \in IntentDamages,
       status_apply \in {NoStatus, BurnPreset} :
        post_intent(attacker_id, target_id, base_damage, status_apply)

\* services/dao_ai.py
manhattan(a, b) == Abs(a[1] - b[1]) + Abs(a[2] - b[2])

is_blocking(c) == c \in BlockingTiles

in_bounds(c) == c \in TerrainCells

\* no cell of the line strictly between a and b holds a blocking tile
has_los(a, b) ==
    \A c \in SeqToSet(_bresenham_line(a, b)) :
        (c # a /\ c # b /\ in_bounds(c)) => ~is_blocking(c)

\* one manhattan step from from_xy to to_xy, the axis of the larger delta
\* first; from_xy itself when no candidate is free
step_towards(from_xy, to_xy) ==
    LET dx == IF to_xy[1] > from_xy[1] THEN 1 ELSE IF to_xy[1] < from_xy[1] THEN -1 ELSE 0
        dy == IF to_xy[2] > from_xy[2] THEN 1 ELSE IF to_xy[2] < from_xy[2] THEN -1 ELSE 0
        cx == IF dx # 0 THEN << <<from_xy[1] + dx, from_xy[2]>> >> ELSE <<>>
        cy == IF dy # 0 THEN << <<from_xy[1], from_xy[2] + dy>> >> ELSE <<>>
        cand == IF Abs(to_xy[1] - from_xy[1]) >= Abs(to_xy[2] - from_xy[2])
                THEN cx \o cy ELSE cy \o cx
        free == SelectSeq(cand, LAMBDA c : in_bounds(c) /\ ~is_blocking(c))
    IN  IF free = <<>> THEN from_xy ELSE free[1]

\* run_ai_turn_db for the npc (ai_mode 'aggressive') on hp h and positions p:
\* the set of [hp, pos, event] it can leave.  The idle branch draws
\* random.random() < 0.33 and one of five offsets.
run_ai_turn_db(actor_id, h, p) ==
    LET my_pos == p[actor_id]
        enemies == {a \in Actors \ {actor_id} :
                       /\ h[a] > 0 /\ ActorKind[a] = "player"
                       /\ manhattan(my_pos, p[a]) <= 6
                       /\ has_los(my_pos, p[a])}
        target == CHOOSE a \in enemies :
                      \A b \in enemies : manhattan(my_pos, p[a]) <= manhattan(my_pos, p[b])
        step == step_towards(my_pos, p[target])
        offsets == {<<1, 0>>, <<-1, 0>>, <<0, 1>>, <<0, -1>>, <<0, 0>>}
        wander == {c \in {<<my_pos[1] + o[1], my_pos[2] + o[2]>> : o \in offsets} :
                      in_bounds(c) /\ ~is_blocking(c)}
        idle == {[hp |-> h, pos |-> p, event |-> "NPC_IDLE"]}
                \cup {[hp |-> h, pos |-> [p EXCEPT ![actor_id] = c],
                       event |-> "NPC_IDLE_MOVE"] : c \in wander}
    IN  IF enemies # {} /\ manhattan(my_pos, p[target]) <= 1
        THEN {[hp |-> [h EXCEPT ![target] = HpAfterDamage(@, 1)], pos |-> p,
               event |-> "NPC_ATTACK"]}
        ELSE IF enemies # {} /\ step # my_pos
        THEN {[hp |-> h, pos |-> [p EXCEPT ![actor_id] = step], event |-> "NPC_MOVE"]}
        ELSE idle

\* POST /world/turn/advance: the status tick, then the AI turn of every npc
\* with hp > 0 in a node that holds a player
advance_turn_db ==
    LET st == advance_statuses_db(hp, statuses)
        npc_ids == {a \in Actors : ActorKind[a] = "npc" /\ st.hp[a] > 0}
    IN  /\ statuses' = st.statuses
        /\ IF npc_ids = {}
           THEN /\ hp' = st.hp
                /\ pos' = pos
                /\ res' = [NoReply EXCEPT !.op = "turn", !.events = st.events]
           ELSE \E o \in run_ai_turn_db("npc", st.hp, pos) :
                    /\ hp' = o.hp
                    /\ pos' = o.pos
                    /\ res' = [NoReply EXCEPT !.op = "turn",
                                              !.events = Append(st.events, o.event)]
        /\ UNCHANGED <<items, inv, objects, dead, fn, battle, node, tx>>

AdvanceTurn == advance_turn_db

\* a row another writer left for the player: meta with the three attacker keys
AimRow ==
    [actor_id |-> "player", status_id |-> "aim", turns_left |-> MaxTurns,
     stacks |-> 1, intensity4 |-> 4,
     meta |-> [accuracy_mod_attacker |-> -20, damage_bonus_attacker |-> 2,
               damage_mult_attacker4 |-> 6, armor_bonus_target |-> 0]]

InitWorld ==
    /\ hp = [a \in Actors |-> StartHp]
    /\ pos = [player |-> <<0, 0>>, npc |-> <<1, 1>>]
    /\ items = InitItems
    /\ inv = InitInv("w_sword")
    /\ objects = PickupObjects
    /\ \E rows \in {<<>>, <<AimRow>>} : statuses = rows
    /\ dead = {}
    /\ res = NoReply
    /\ fn = NoCall
    /\ battle = NoBattle
    /\ node = OneNode
    /\ tx = NoTx

\* POST /combat/attack by the player
AttackByPlayer == \E target \in Actors, roll \in {5, 60, 96} :
                      perform_attack_db("player", target, roll)

NextWorld == AttackByPlayer \/ ApplyStatus \/ AdvanceStatuses \/ IntentAttack \/ AdvanceTurn

SpecWorld == InitWorld /\ [][NextWorld]_vars

----------------------------------------------------------------------------
(* Specification of the accuracy functions: Init draws the arguments, the  *)
(* two actions apply _estimate_accuracy and the accuracy computation of    *)
(* perform_attack_db (dao.py 2361-2399) to them.                           *)

AccuracyArgs ==
    [dist : 0..MaxDist, aligned : BOOLEAN, opt_range : {1, 2},
     hit_bonus : {-100, 0, 10}, is_bow : BOOLEAN, is_ranged : BOOLEAN,
     min_range : {0, 3}, near_penalty : {0, 20},
     acc_bonus : {0, 50}, evasion : {0, 200}]

InitAccuracy ==
    /\ hp = [a \in Actors |-> StartHp]
    /\ pos = [player |-> <<0, 0>>, npc |-> <<1, 1>>]
    /\ items = InitItems
    /\ inv = InitInv("w_sword")
    /\ objects = PickupObjects
    /\ statuses = <<>>
    /\ dead = {}
    /\ res = NoReply
    /\ \E a \in AccuracyArgs : fn = [f |-> "args", args |-> a, out |-> 0]
    /\ battle = NoBattle
    /\ node = OneNode
    /\ tx = NoTx

EstimateAccuracy ==
    /\ fn.f = "args"
    /\ fn' = [fn EXCEPT !.f = "_estimate_accuracy",
                        !.out = _estimate_accuracy(fn.args.dist, fn.args.aligned,
                                    fn.args.opt_range, fn.args.hit_bonus)]
    /\ UNCHANGED <<hp, pos, items, inv, objects, statuses, dead, res, battle, node, tx>>

AttackAccuracyCall ==
    /\ fn.f = "args"
    /\ fn' = [fn EXCEPT !.f = "attack_accuracy",
                        !.out = AttackAccuracy(fn.args.dist, fn.args.aligned,
                                    fn.args.opt_range, fn.args.hit_bonus,
                                    fn.args.is_bow, fn.args.is_ranged,
                                    fn.args.min_range, fn.args.near_penalty,
                                    fn.args.acc_bonus, fn.args.evasion)]
    /\ UNCHANGED <<hp, pos, items, inv, objects, statuses, dead, res, battle, node, tx>>

NextAccuracy == EstimateAccuracy \/ AttackAccuracyCall

SpecAccuracy == InitAccuracy /\ [][NextAccuracy]_vars

----------------------------------------------------------------------------
(* Vocabulary of the properties.  A step whose res'.op is "attack" is one  *)
(* call of perform_attack_db: the unprimed variables are the state before  *)
(* the call, the primed ones the state after it, res' its response.        *)

Last(seq) == seq[Len(seq)]

\* the call got as far as the line-of-sight check: a weapon in the right
\* hand and an existing target
ReachedGeometry(r) == r.op = "attack" /\ r.item # None /\ r.target \in Actors

\* the three conditions of the first step of the resolution, in the state
\* before the call
LosBlocked(r) == ~check_los(BlockCells, pos[r.attacker], pos[r.target])
BeyondMaxRange(r) ==
    /\ KindRow(r.item).max_range > 0
    /\ _chebyshev_distance(pos[r.attacker], pos[r.target]) > KindRow(r.item).max_range
MeleeNotAdjacent(r) ==
    /\ KindRow(r.item).weapon_class = "melee"
    /\ _chebyshev_distance(pos[r.attacker], pos[r.target]) # 1
GeometryFails(r) == LosBlocked(r) \/ BeyondMaxRange(r) \/ MeleeNotAdjacent(r)

\* items of the backpack whose kind has the ammo_type of the weapon
MatchingStacks(its, backpack, item) ==
    {i \in SeqToSet(backpack) \cap DOMAIN its :
        KindRow(i).ammo_type = KindRow(item).ammo_type}

\* nothing the attack may touch has changed
NoMutation == hp' = hp /\ items' = items /\ inv' = inv

\* C1: an attack stopped by line of sight, by max_range or by the melee
\* adjacency rule answers ok with ATTACK_START followed by LOS_BLOCKED or
\* ATTACK_OUT_OF_RANGE, and changes no hp, no charge counter and no ammo stack.
C1_GeometryFailureMutatesNothing ==
    [][(ReachedGeometry(res') /\ GeometryFails(res'))
        => /\ res'.ok
           /\ res'.events \in {<<"ATTACK_START", "LOS_BLOCKED">>,
                               <<"ATTACK_START", "ATTACK_OUT_OF_RANGE">>}
           /\ LosBlocked(res') => res'.events[2] = "LOS_BLOCKED"
           /\ NoMutation]_vars

\* scenario B: a melee weapon two cells away with a clear line
C1_Witness ==
    /\ res.op = "attack" /\ res.reason = "melee_requires_adjacent"
    /\ res.events = <<"ATTACK_START", "ATTACK_OUT_OF_RANGE">>
    /\ _chebyshev_distance(pos[res.attacker], pos[res.target]) = 2

\* C2: past the geometry checks, a weapon whose own counter is 0, or that has
\* no counter and an ammo_type for which the attacker's backpack holds no
\* ammunition (no stack of that type with charges > 0), answers ok with
\* NO_AMMO and without HIT_ROLL, and nothing is changed.
C2_NoAmmoMutatesNothing ==
    [][(/\ ReachedGeometry(res') /\ ~GeometryFails(res')
        /\ \/ items[res'.item] = 0
           \/ /\ items[res'.item] = NULL
              /\ KindRow(res'.item).ammo_type # ""
              /\ \A a \in MatchingStacks(items, inv[res'.attacker].backpack,
                                          res'.item) : ~(items[a] > 0))
        => /\ res'.ok
           /\ Has(res'.events, "NO_AMMO")
           /\ ~Has(res'.events, "HIT_ROLL")
           /\ NoMutation]_vars

\* C3: an attack that reaches the hit roll hits iff roll <= accuracy; on a
\* miss the events end with ATTACK_MISS, no hp changes, and what the
\* ammunition step consumed stays consumed.
C3_HitIffRollWithinAccuracy ==
    [][(res'.op = "attack" /\ Has(res'.events, "HIT_ROLL"))
        => /\ Has(res'.events, "ATTACK_HIT") <=> res'.roll <= res'.accuracy
           /\ res'.roll > res'.accuracy =>
                /\ Last(res'.events) = "ATTACK_MISS"
                /\ hp' = hp
                /\ Has(res'.events, "CONSUME") =>
                       items'[res'.item] = items[res'.item] - 1
                /\ Has(res'.events, "AMMO_CONSUME") =>
                       \E a \in MatchingStacks(items, inv[res'.attacker].backpack,
                                               res'.item) :
                           \/ a \notin DOMAIN items'
                           \/ items'[a] = items[a] - 1]_vars

\* a miss by one (roll = accuracy + 1) that cost the pistol a charge
C3_Witness ==
    /\ res.op = "attack" /\ res.item = "w_pistol"
    /\ res.roll = res.accuracy + 1
    /\ Last(res.events) = "ATTACK_MISS"
    /\ items["w_pistol"] = StartAmmo - 1
    /\ hp[res.target] = StartHp

\* the sum of the charges of a set of ammo stacks
RECURSIVE SumCharges(_, _)
SumCharges(its, stacks) ==
    IF stacks = {} THEN 0
    ELSE LET a == CHOOSE x \in stacks : TRUE
         IN  its[a] + SumCharges(its, stacks \ {a})

\* total charge count of the matching ammo stacks of a backpack
TotalAmmo(its, backpack, item) ==
    SumCharges(its, MatchingStacks(its, backpack, item))

\* the weapon of the call draws on the backpack: no own counter, an ammo_type
ExternalAmmoShot(r) ==
    /\ r.op = "attack" /\ r.item # None
    /\ items[r.item] = NULL
    /\ KindRow(r.item).ammo_type # ""
    /\ Has(r.events, "HIT_ROLL")

\* C5: on a hit the hp taken from the target is the damage after crit and
\* resistance with the armor reduction applied, max(1, d - floor(d*0.1*L)),
\* L being the target's armor level plus armor_bonus_target clipped to [0, 5].
C5_ArmorReductionApplied ==
    [][(res'.op = "attack" /\ Has(res'.events, "ATTACK_HIT"))
        => LET t == res'.target
               L == effective_armor_level(t)
                    + get_status_combat_mods(statuses, res'.attacker, t).armor_bonus_target
           IN  hp'[t] = Max(0, hp[t] - apply_armor_reduction(res'.final, L))]_vars

\* C8: a shot of a weapon fed from the backpack takes exactly one charge off
\* the total of the matching stacks, from a stack that had charges > 0, and
\* leaves no matching stack stored with 0 charges.
C8_ExternalAmmoExactlyOne ==
    [][ExternalAmmoShot(res')
        => LET before == MatchingStacks(items, inv[res'.attacker].backpack, res'.item)
               after == MatchingStacks(items', inv'[res'.attacker].backpack, res'.item)
           IN  /\ TotalAmmo(items', inv'[res'.attacker].backpack, res'.item)
                     = TotalAmmo(items, inv[res'.attacker].backpack, res'.item) - 1
               /\ \E a \in before :
                      /\ items[a] > 0
                      /\ \/ a \notin DOMAIN items'
                         \/ items'[a] = items[a] - 1
               /\ \A a \in after : items'[a] # 0]_vars

\* C9: with its own counter at c >= 1, an attack past the geometry checks
\* leaves the counter at c - 1 and reaches the hit roll; AMMO_EMPTY is in the
\* same result iff c - 1 = 0, and the result is not the NO_AMMO rejection.
C9_OwnCounterDecrementsByOne ==
    [][(/\ ReachedGeometry(res') /\ ~GeometryFails(res')
        /\ items[res'.item] >= 1)
        => /\ items'[res'.item] = items[res'.item] - 1
           /\ Has(res'.events, "CONSUME")
           /\ Has(res'.events, "HIT_ROLL")
           /\ ~Has(res'.events, "NO_AMMO")
           /\ Has(res'.events, "AMMO_EMPTY") <=> items[res'.item] - 1 = 0]_vars

\* the last charge of the pistol powered a shot that reached the hit roll
C9_Witness ==
    /\ res.op = "attack" /\ res.item = "w_pistol"
    /\ items["w_pistol"] = 0 /\ res.left = 0
    /\ Has(res.events, "AMMO_EMPTY") /\ Has(res.events, "HIT_ROLL")

C4_AccuracyWithinBounds ==
    fn.f \in {"_estimate_accuracy", "attack_accuracy"} => fn.out \in 5..95

\* an aligned shot within range with acc_bonus 50: 150 before the clamp, 95 after
C4_Witness ==
    /\ fn.f = "attack_accuracy" /\ fn.out = 95
    /\ fn.args.aligned /\ fn.args.dist <= fn.args.opt_range
    /\ fn.args.hit_bonus = 0 /\ fn.args.acc_bonus = 50 /\ fn.args.evasion = 0

\* C6: the accuracy of the hit roll and the base damage of a hit that is not
\* a crit carry the aggregate get_status_combat_mods returns for the attacker's
\* rows with turns_left > 0: accuracy_mod_attacker added before the clamp,
\* damage_bonus_attacker added and damage_mult_attacker multiplied in.
C6_AttackReadsStatusMods ==
    [][(res'.op = "attack" /\ Has(res'.events, "HIT_ROLL"))
        => LET a == res'.attacker
               t == res'.target
               w == res'.item
               m == get_status_combat_mods(statuses, a, t)
           IN  /\ res'.accuracy =
                      AttackAccuracy(_chebyshev_distance(pos[a], pos[t]),
                          _aligned(pos[a], pos[t]),
                          KindRow(w).opt_range, KindRow(w).hit_bonus,
                          KindRow(w).is_bow, KindRow(w).weapon_class = "ranged",
                          RowMinRange(w), RowNearPenalty(w),
                          ActorMeta[a].acc_bonus + m.accuracy_mod_attacker,
                          ActorMeta[t].evasion)
               /\ (Has(res'.events, "ATTACK_HIT") /\ ~Has(res'.events, "ATTACK_CRIT"))
                      => res'.base = ((BaseDamage(w) + m.damage_bonus_attacker)
                                         * m.mult_num) \div m.mult_den]_vars

\* C7: no step of the world leaves an hp below 0, and damage above the hp the
\* target had (perform_attack_db, /intent ATTACK) leaves it at exactly 0.
C7_HpNeverNegative ==
    [][\A a \in Actors :
          /\ hp[a] >= 0 /\ hp'[a] >= 0
          /\ (/\ res'.op \in {"attack", "intent"} /\ res'.target = a
              /\ res'.final > hp[a]
              /\ res'.op = "attack" => Has(res'.events, "ATTACK_HIT"))
                 => hp'[a] = 0]_vars

\* an /intent ATTACK with more damage than any hp: the target is at 0
C7_Witness ==
    /\ res.op = "intent" /\ res.final > StartHp
    /\ res.target \in Actors /\ hp[res.target] = 0

----------------------------------------------------------------------------
(* Reload (dao.py reload_weapon_db, routers/inventory.py reload_weapon)    *)
(* and the charge spent per shot (dao.py spend_shot_if_needed).            *)

\* int(x or 0) of a charges column
IntOr0(c) == IF c = NULL THEN 0 ELSE c

\* the items and inventories tables after _delete_item_everywhere(item)
_delete_item_everywhere(st, item) ==
    [st EXCEPT
        !.items = [i \in DOMAIN st.items \ {item} |-> st.items[i]],
        !.inv = [a \in DOMAIN st.inv |->
                    [right_item |-> IF st.inv[a].right_item = item THEN None
                                    ELSE st.inv[a].right_item,
                     left_item  |-> IF st.inv[a].left_item = item THEN None
                                    ELSE st.inv[a].left_item,
                     backpack   |-> Remove(st.inv[a].backpack, item)]]]

\* variant of take that empties the stack whatever the magazine still needs
take_WholeStack(ammo_left, need) == ammo_left

\* take = min(ammo_left, need)
take(ammo_left, need) == Min(ammo_left, need)

\* variant of StackEmptied that already fires with one charge left
StackEmptied_AtOne(new_left) == IntOr0(new_left) <= 1

\* if int(new_left or 0) <= 0: the stack is deleted
StackEmptied(new_left) == IntOr0(new_left) <= 0

\* the for loop of reload_weapon_db over the fetched rows;
\* st = [items, inv, need, loaded, used]
RECURSIVE ReloadLoop(_, _, _)
ReloadLoop(rows, ammo_type, st) ==
    IF rows = <<>> THEN st
    ELSE LET r == Head(rows)
             ammo_left == IntOr0(st.items[r])
         IN  IF KindRow(r).ammo_type # ammo_type \/ ammo_left <= 0 \/ st.need <= 0
             THEN ReloadLoop(Tail(rows), ammo_type, st)
             ELSE LET t == take(ammo_left, st.need)
                      upd == [st EXCEPT !.items[r] = @ - t]
                      del == IF StackEmptied(upd.items[r])
                             THEN _delete_item_everywhere(upd, r) ELSE upd
                      nxt == [del EXCEPT
                                 !.loaded = @ + t, !.need = @ - t,
                                 !.used = Append(@, [ammo_item_id |-> r, taken |-> t])]
                  IN  IF nxt.need <= 0 THEN nxt
                      ELSE ReloadLoop(Tail(rows), ammo_type, nxt)

\* the orders in which SELECT ... WHERE i.id = ANY(:ids), which has no
\* ORDER BY, can return the rows of a set of items
RowOrders(S) ==
    {s \in [1..Cardinality(S) -> S] : \A i, j \in DOMAIN s : s[i] = s[j] => i = j}

\* variant of the checks that lets a full weapon through to the loop
ReloadRejection_NoFullCheck(cap, ammo_type, cur) ==
    IF cap <= 0 THEN "not_reloadable"
    ELSE IF ammo_type = "" THEN "no_external_ammo"
    ELSE ""

\* the three checks on the weapon row, in the order of the code: the error
\* returned, or "" when the reload goes on
ReloadRejection(cap, ammo_type, cur) ==
    IF cap <= 0 THEN "not_reloadable"
    ELSE IF ammo_type = "" THEN "no_external_ammo"
    ELSE IF cur >= cap THEN "already_full"
    ELSE ""

reload_weapon_db(actor_id, weapon_item_id) ==
    LET reply == [NoReply EXCEPT !.op = "reload", !.attacker = actor_id,
                                 !.item = weapon_item_id]
        fail(err, left) ==
            /\ res' = [reply EXCEPT !.ok = FALSE, !.error = err, !.left = left]
            /\ UNCHANGED <<items, inv>>
        w == KindRow(weapon_item_id)
        cap == w.max_charges
        cur == IntOr0(items[weapon_item_id])
        backpack == inv[actor_id].backpack
        rejected == ReloadRejection(cap, w.ammo_type, cur)
    IN  IF weapon_item_id \notin DOMAIN items THEN fail("weapon_not_found", NULL)
        ELSE IF rejected # ""
        THEN fail(rejected, IF rejected = "already_full" THEN cur ELSE NULL)
        ELSE IF backpack = <<>> THEN fail("no_ammo_in_backpack", NULL)
        ELSE \E rows \in RowOrders(SeqToSet(backpack) \cap DOMAIN items) :
                LET out == ReloadLoop(rows, w.ammo_type,
                                      [items |-> items, inv |-> inv, need |-> cap - cur,
                                       loaded |-> 0, used |-> <<>>])
                    new_weapon_charges == IntOr0(items[weapon_item_id]) + out.loaded
                IN  IF out.loaded = 0 THEN fail("no_usable_ammo", NULL)
                    ELSE /\ items' = [out.items EXCEPT
                                         ![weapon_item_id] = new_weapon_charges]
                         /\ inv' = out.inv
                         /\ res' = [reply EXCEPT !.loaded = out.loaded,
                                                 !.left = new_weapon_charges,
                                                 !.used = out.used,
                                                 !.events = <<"RELOAD">>]

\* POST /inventory/reload: the weapon is the item of the named hand
reload_weapon(actor_id, hand) ==
    LET item == IF actor_id \notin Actors THEN None
                ELSE IF hand = "left" THEN inv[actor_id].left_item
                ELSE inv[actor_id].right_item
    IN  /\ IF item = None \/ item \notin DOMAIN items
           THEN /\ res' = [NoReply EXCEPT !.op = "reload", !.attacker = actor_id,
                                          !.ok = FALSE, !.error = "no_weapon_in_hand"]
                /\ UNCHANGED <<items, inv>>
           ELSE reload_weapon_db(actor_id, item)
        /\ UNCHANGED <<hp, pos, objects, statuses, dead, fn, battle, node, tx>>

Reload == \E actor_id \in ActorIds, hand \in {"left", "right"} :
              reload_weapon(actor_id, hand)

\* spend_shot_if_needed on the weapon of a right hand
spend_shot_if_needed(weapon_item_id) ==
    LET reply == [NoReply EXCEPT !.op = "spend_shot", !.item = weapon_item_id]
        w == KindRow(weapon_item_id)
        cur == IntOr0(items[weapon_item_id])
    IN  /\ IF w.max_charges = 0 /\ w.ammo_type = ""
           THEN res' = reply /\ UNCHANGED items
           ELSE IF cur <= 0
           THEN /\ res' = [reply EXCEPT !.ok = FALSE, !.error = "empty",
                                        !.events = <<"AMMO_EMPTY">>]
                /\ UNCHANGED items
           ELSE /\ items' = [items EXCEPT ![weapon_item_id] = @ - 1]
                /\ res' = [reply EXCEPT !.left = cur - 1, !.events = <<"CONSUME">>]
        /\ UNCHANGED <<hp, pos, inv, objects, statuses, dead, fn, battle, node, tx>>

SpendShot == \E a \in Actors :
                 /\ inv[a].right_item \in DOMAIN items
                 /\ spend_shot_if_needed(inv[a].right_item)

\* the player holds one of four weapons; the two bullet stacks start with
\* NULL, 0, 1 or 2 charges; the backpack is one of four
InitReload ==
    /\ hp = [a \in Actors |-> StartHp]
    /\ pos = [player |-> <<0, 0>>, npc |-> <<1, 1>>]
    /\ \E c \in {NULL} \cup (0..MagCap), b1, b2 \in {NULL, 0, 1, 2} :
          items = [w_rifle |-> c, w_wand |-> 1, w_sword |-> NULL, w_bow |-> NULL,
                   n_sword |-> NULL, arrows1 |-> StartAmmo,
                   bullets1 |-> b1, bullets2 |-> b2]
    /\ \E w \in {"w_rifle", "w_wand", "w_sword", "w_bow"},
          bp \in {<<>>, <<"arrows1">>, <<"arrows1", "bullets1">>,
                  <<"bullets1", "arrows1", "bullets2">>} :
          inv = [player |-> [right_item |-> w, left_item |-> None, backpack |-> bp],
                 npc    |-> [right_item |-> None, left_item |-> "n_sword",
                             backpack |-> <<>>]]
    /\ objects = {}
    /\ statuses = <<>>
    /\ dead = {}
    /\ res = NoReply
    /\ fn = NoCall
    /\ battle = NoBattle
    /\ node = OneNode
    /\ tx = NoTx

NextReload == Reload \/ SpendShot

SpecReload == InitReload /\ [][NextReload]_vars

----------------------------------------------------------------------------
(* Properties of the reload.  A step whose res'.op is "reload" and whose   *)
(* res'.item is a weapon is one call of reload_weapon_db.                  *)

\* the charges reload_weapon_db can take from a set of stacks
RECURSIVE UsableAmmo(_, _)
UsableAmmo(its, stacks) ==
    IF stacks = {} THEN 0
    ELSE LET a == CHOOSE x \in stacks : TRUE
         IN  Max(0, IntOr0(its[a])) + UsableAmmo(its, stacks \ {a})

\* the stacks of the caller's backpack that match the weapon of the call
ReloadStacks(r) == MatchingStacks(items, inv[r.attacker].backpack, r.item)

\* the call is a reload of a weapon with capacity, an ammo_type and room left
ReloadNeeded(r) ==
    /\ r.op = "reload" /\ r.item # None
    /\ KindRow(r.item).max_charges > 0
    /\ KindRow(r.item).ammo_type # ""
    /\ IntOr0(items[r.item]) < KindRow(r.item).max_charges

\* C11: a reload of a weapon with capacity C, charge c < C and ammo_type T,
\* with A > 0 charges of type T in the caller's backpack, succeeds and leaves
\* the weapon with min(C, c + A) charges, never more than C; each stack it
\* uses gives min(needed, available); a stack drained to 0 is deleted and
\* leaves the backpack, the others keep what was not taken; ending below C
\* is a success too.
C11_ReloadFillsFromStacks ==
    [][(ReloadNeeded(res') /\ UsableAmmo(items, ReloadStacks(res')) > 0) =>
        LET w == res'.item
            C == KindRow(w).max_charges
            c == IntOr0(items[w])
            S == ReloadStacks(res')
            A == UsableAmmo(items, S)
            used == res'.used
            n == Len(used)
        IN  /\ res'.ok /\ res'.events = <<"RELOAD">>
            /\ items'[w] = Min(C, c + A)
            /\ items'[w] <= C
            /\ res'.loaded = items'[w] - c /\ res'.left = items'[w]
            /\ n >= 1
            /\ \A k \in 1..n :
                  /\ used[k].ammo_item_id \in S
                  /\ \A j \in 1..n : used[j].ammo_item_id = used[k].ammo_item_id => j = k
                  /\ used[k].taken =
                        IF k < n THEN items[used[k].ammo_item_id]
                        ELSE Min(items[used[n].ammo_item_id],
                                 (C - c) - (res'.loaded - used[n].taken))
            /\ \A s \in S :
                  LET took == {k \in 1..n : used[k].ammo_item_id = s}
                      t == IF took = {} THEN 0 ELSE used[CHOOSE k \in took : TRUE].taken
                  IN  IF t > 0 /\ t = items[s]
                      THEN /\ s \notin DOMAIN items'
                           /\ s \notin SeqToSet(inv'[res'.attacker].backpack)
                      ELSE /\ s \in DOMAIN items' /\ items'[s] = items[s] - t
                           /\ s \in SeqToSet(inv'[res'.attacker].backpack)
            /\ \A i \in DOMAIN items \ (S \cup {w}) :
                  i \in DOMAIN items' /\ items'[i] = items[i]
      ]_vars

\* a reload that emptied two stacks and still ended below the capacity
C11_Witness ==
    /\ res.op = "reload" /\ res.ok
    /\ Len(res.used) = 2
    /\ res.used[1].ammo_item_id \notin DOMAIN items
    /\ res.used[2].ammo_item_id \notin DOMAIN items
    /\ items[res.item] = res.loaded
    /\ items[res.item] < KindRow(res.item).max_charges

\* the call is a reload_weapon_db call: the named hand held a stored item
ReloadCall(r) == r.op = "reload" /\ r.item # None

----------------------------------------------------------------------------
(* The status endpoints on their own (routers/status.py, dao_status.py):   *)
(* apply with every turns_left the request model admits (ge = 0), remove,  *)
(* list and the tick, on a table of up to MaxTableRows rows.               *)

\* variant of remove_status_db that deletes every row of the actor
remove_status_db_WholeActor(rows, actor_id, status_id) ==
    SelectSeq(rows, LAMBDA r : r.actor_id # actor_id)

\* DELETE FROM actor_statuses WHERE actor_id = :aid AND status_id = :sid
remove_status_db(rows, actor_id, status_id) ==
    SelectSeq(rows, LAMBDA r : ~(r.actor_id = actor_id /\ r.status_id = status_id))

\* variant of get_statuses_db without the condition on turns_left
get_statuses_db_All(rows, actor_id) ==
    SelectSeq(rows, LAMBDA r : r.actor_id = actor_id)

\* the rows GET /world/status/{actor_id} returns
get_statuses_db(rows, actor_id) ==
    SelectSeq(rows, LAMBDA r : r.actor_id = actor_id /\ r.turns_left > 0)

\* POST /world/status/remove
remove_status(actor_id, status_id) ==
    /\ statuses' = remove_status_db(statuses, actor_id, status_id)
    /\ res' = [NoReply EXCEPT !.op = "status_remove", !.target = actor_id,
                              !.status = status_id]
    /\ UNCHANGED <<hp, pos, items, inv, objects, dead, fn, battle, node, tx>>

\* the bodies POST /world/status/apply is given: burn with intensity 2.0 and
\* 0.0, bleed with 2 stacks, guard, and "chill", a status_id that _EFFECT_MAP
\* does not know
StatusRequests ==
    {[status_id |-> "burn",  intensity4 |-> 8, stacks |-> 1],
     [status_id |-> "burn",  intensity4 |-> 0, stacks |-> 1],
     [status_id |-> "bleed", intensity4 |-> 4, stacks |-> 2],
     [status_id |-> "guard", intensity4 |-> 4, stacks |-> 1],
     [status_id |-> "chill", intensity4 |-> 4, stacks |-> 1]}

ApplyRequest ==
    \E actor_id \in ActorIds, p \in StatusRequests, t \in 0..MaxTurns :
        /\ actor_id \in Actors =>
              (RowIndex(statuses, actor_id, p.status_id) # 0 \/ Len(statuses) < MaxTableRows)
        /\ apply_status(actor_id, p, t)

RemoveRequest ==
    \E actor_id \in Actors, status_id \in {p.status_id : p \in StatusRequests} :
        remove_status(actor_id, status_id)

\* the npc starts one hit from 0 hp
InitStatus ==
    /\ hp = [player |-> StartHp, npc |-> 1]
    /\ pos = [player |-> <<0, 0>>, npc |-> <<1, 1>>]
    /\ items = [n_sword |-> NULL]
    /\ inv = [player |-> [right_item |-> None, left_item |-> None, backpack |-> <<>>],
              npc    |-> [right_item |-> None, left_item |-> "n_sword",
                          backpack |-> <<>>]]
    /\ objects = {}
    /\ statuses = <<>>
    /\ dead = {}
    /\ res = NoReply
    /\ fn = NoCall
    /\ battle = NoBattle
    /\ node = OneNode
    /\ tx = NoTx

NextStatus == ApplyRequest \/ RemoveRequest \/ AdvanceStatuses

SpecStatus == InitStatus /\ [][NextStatus]_vars

----------------------------------------------------------------------------
(* Properties of the status endpoints.  A step with res'.op =              *)
(* "status_advance" is one tick, "status_apply" one apply, "status_remove" *)
(* one remove; res'.log holds the events the tick returned.                *)

\* the rows of a table with the key (actor_id, status_id)
RowsOf(rows, actor_id, status_id) ==
    {i \in 1..Len(rows) : rows[i].actor_id = actor_id /\ rows[i].status_id = status_id}

\* the events of a type a tick returned for the key of row r
EventsFor(log, type, r) ==
    {k \in 1..Len(log) : /\ log[k].type = type
                         /\ log[k].actor_id = r.actor_id
                         /\ log[k].status = r.status_id}

\* C13: a tick lowers turns_left of every stored status by exactly 1; a
\* status with turns_left 1 before the tick is removed in that tick with
\* exactly one STATUS_EXPIRE event (one with turns_left 0 as well); a status
\* that stays raises no STATUS_EXPIRE; after the tick no stored status has
\* turns_left <= 0, and the tick stores no status that was not there.
C13_TickDecrementsAndExpires ==
    [][res'.op = "status_advance" =>
        /\ \A i \in 1..Len(statuses) :
              LET r == statuses[i]
                  after == RowsOf(statuses', r.actor_id, r.status_id)
              IN  IF r.turns_left <= 1
                  THEN /\ after = {}
                       /\ Cardinality(EventsFor(res'.log, "STATUS_EXPIRE", r)) = 1
                  ELSE /\ Cardinality(after) = 1
                       /\ \A j \in after :
                             statuses'[j] = [r EXCEPT !.turns_left = r.turns_left - 1]
                       /\ EventsFor(res'.log, "STATUS_EXPIRE", r) = {}
        /\ \A j \in 1..Len(statuses') :
              /\ statuses'[j].turns_left > 0
              /\ RowsOf(statuses, statuses'[j].actor_id, statuses'[j].status_id) # {}
      ]_vars

\* a tick that expired one status and left another with one turn less
C13_Witness ==
    /\ res.op = "status_advance"
    /\ \E k \in 1..Len(res.log) : res.log[k].type = "STATUS_EXPIRE"
    /\ Len(statuses) = 1
    /\ statuses[1].turns_left = MaxTurns - 1
    /\ EventsFor(res.log, "STATUS_EXPIRE", statuses[1]) = {}

\* C14: the table never holds two entries with the same (actor, status_id);
\* after an apply the entry of that key holds the turns_left, stacks and
\* intensity of this apply (the last write wins, a duration is never added
\* to the stored one), an entry that existed keeps its place and every other
\* entry is unchanged; a status applied with turns_left >= 1 is among the
\* rows the actor's status list returns.
C14_ApplyIsLastWriteWins ==
    /\ [](\A i, j \in 1..Len(statuses) :
             (statuses[i].actor_id = statuses[j].actor_id
              /\ statuses[i].status_id = statuses[j].status_id) => i = j)
    /\ [][(res'.op = "status_apply" /\ res'.ok) =>
            LET before == RowsOf(statuses, res'.target, res'.status)
                after == RowsOf(statuses', res'.target, res'.status)
                listed == get_statuses_db(statuses', res'.target)
            IN  /\ Cardinality(after) = 1
                /\ \A j \in after :
                      /\ statuses'[j].turns_left = res'.turns_left
                      /\ statuses'[j].stacks = res'.stacks
                      /\ statuses'[j].intensity4 = res'.intensity4
                      /\ IF before = {} THEN j = Len(statuses) + 1 ELSE j \in before
                /\ Len(statuses') = Len(statuses) + (IF before = {} THEN 1 ELSE 0)
                /\ \A i \in 1..Len(statuses) : i \notin before => statuses'[i] = statuses[i]
                /\ res'.turns_left >= 1 =>
                      \E k \in 1..Len(listed) :
                          /\ listed[k].status_id = res'.status
                          /\ listed[k].turns_left = res'.turns_left
         ]_vars

\* an apply has overwritten the first of two entries with a shorter duration
C14_Witness ==
    /\ res.op = "status_apply" /\ res.ok
    /\ Len(statuses) = 2
    /\ statuses[1].actor_id = res.target /\ statuses[1].status_id = res.status
    /\ statuses[1].turns_left = 1 /\ res.turns_left = 1
    /\ Len(get_statuses_db(statuses, res.target)) >= 1

\* C15: a remove answers ok whether or not the entry exists; afterwards the
\* table has no entry with that (actor, status_id) and the actor's status
\* list does not contain the status; every other entry is unchanged and
\* keeps its order; removing the same status again changes nothing.
C15_RemoveIsIdempotent ==
    [][res'.op = "status_remove" =>
        LET before == RowsOf(statuses, res'.target, res'.status)
            listed == get_statuses_db(statuses', res'.target)
            kept == [i \in 1..Len(statuses) |->
                        Cardinality({j \in 1..i : j \notin before})]
        IN  /\ res'.ok
            /\ RowsOf(statuses', res'.target, res'.status) = {}
            /\ \A k \in 1..Len(listed) : listed[k].status_id # res'.status
            /\ Len(statuses') = Len(statuses) - Cardinality(before)
            /\ \A i \in 1..Len(statuses) :
                  i \notin before => statuses'[kept[i]] = statuses[i]
            /\ before = {} => statuses' = statuses
            /\ remove_status_db(statuses', res'.target, res'.status) = statuses'
      ]_vars

\* a remove has left the actor with its other status
C15_Witness ==
    /\ res.op = "status_remove" /\ res.ok
    /\ Len(statuses) = 1
    /\ statuses[1].actor_id = res.target
    /\ statuses[1].status_id # res.status
    /\ res.status = "burn"

\* the damage C16 gives a row per tick: round(intensity * 2) for burn,
\* whatever the intensity, the stacks for bleed, nothing for the others
ClaimedDmg(r) ==
    IF r.status_id = "burn" THEN Max(0, RoundHalfEven(r.intensity4 * 2, 4))
    ELSE IF r.status_id = "bleed" THEN r.stacks
    ELSE 0

\* the sum of ClaimedDmg over the rows of an actor
RECURSIVE ClaimedTotal(_, _)
ClaimedTotal(rows, actor_id) ==
    IF rows = <<>> THEN 0
    ELSE (IF Head(rows).actor_id = actor_id THEN ClaimedDmg(Head(rows)) ELSE 0)
         + ClaimedTotal(Tail(rows), actor_id)

\* C16: a tick subtracts from the hp of each actor round(intensity * 2) for
\* a burn of any intensity, 0 included, the stacks for a bleed and nothing
\* for guard or rage, with the hp floored at 0; a burn of intensity 2 with
\* turns_left 1 subtracts 4, is removed and raises STATUS_EXPIRE.
C16_TickDamagePerStatus ==
    [][res'.op = "status_advance" =>
        /\ \A a \in Actors : hp'[a] = Max(0, hp[a] - ClaimedTotal(statuses, a))
        /\ \A i \in 1..Len(statuses) :
              LET r == statuses[i]
              IN  (r.status_id = "burn" /\ r.intensity4 = 8 /\ r.turns_left = 1) =>
                      /\ \E k \in EventsFor(res'.log, "STATUS_TICK", r) :
                            res'.log[k].dmg = 4
                      /\ RowsOf(statuses', r.actor_id, r.status_id) = {}
                      /\ EventsFor(res'.log, "STATUS_EXPIRE", r) # {}
      ]_vars

\* the status_id has no entry in the effect table
UnknownStatus(status_id) == status_id \notin {"burn", "bleed", "guard", "rage"}

\* C17: in a tick a status whose status_id is unknown changes no hp and
\* raises no STATUS_TICK, yet its turns_left is lowered by 1 and it expires
\* like any other; the hp, the other statuses and their events come out as
\* the tick of the table without the unknown statuses leaves them.
C17_UnknownStatusOnlyCountsDown ==
    [][res'.op = "status_advance" =>
        LET known == SelectSeq(statuses, LAMBDA r : ~UnknownStatus(r.status_id))
            alone == advance_statuses_db(hp, known)
        IN  /\ hp' = alone.hp
            /\ SelectSeq(statuses', LAMBDA r : ~UnknownStatus(r.status_id)) = alone.statuses
            /\ SelectSeq(res'.log, LAMBDA e : ~UnknownStatus(e.status)) = alone.log
            /\ \A i \in 1..Len(statuses) :
                  LET r == statuses[i]
                      after == RowsOf(statuses', r.actor_id, r.status_id)
                  IN  UnknownStatus(r.status_id) =>
                         /\ EventsFor(res'.log, "STATUS_TICK", r) = {}
                         /\ IF r.turns_left <= 1
                            THEN /\ after = {}
                                 /\ Cardinality(EventsFor(res'.log, "STATUS_EXPIRE", r)) = 1
                            ELSE /\ \A j \in after :
                                       statuses'[j] = [r EXCEPT !.turns_left = r.turns_left - 1]
                                 /\ Cardinality(after) = 1
                                 /\ EventsFor(res'.log, "STATUS_EXPIRE", r) = {}
      ]_vars

\* a tick in which an unknown status expired next to a burn that ticked
C17_Witness ==
    /\ res.op = "status_advance"
    /\ \E k \in 1..Len(res.log) :
          res.log[k].type = "STATUS_EXPIRE" /\ res.log[k].status = "chill"
    /\ \E k \in 1..Len(res.log) :
          /\ res.log[k].type = "STATUS_TICK" /\ res.log[k].status = "burn"
          /\ res.log[k].actor_id = "player" /\ res.log[k].dmg = 4
    /\ ~\E k \in 1..Len(res.log) :
          res.log[k].type = "STATUS_TICK" /\ res.log[k].status = "chill"
    /\ hp["player"] = StartHp - 4

----------------------------------------------------------------------------
(* Battle sessions (services/dao_battle.py, routers/battle.py) and the     *)
(* session-scoped skills (routers/skills.py).  A battle_sessions row is    *)
(* [node_id, state, turn_index] and its id is its place in the table; a    *)
(* battle_participants row is [session_id, actor_id, team, initiative,     *)
(* alive]; an actor_skills row is [actor_id, session_id, label,            *)
(* applied_at_turn, duration_turns].                                       *)

Nodes == {"forest", "cave"}

\* variant of the lookup that never finds a running session
RunningSessionAt_None(sessions, node_id) == 0

\* variant of the lookup without "and state = 'running'"
RunningSessionAt_AnyState(sessions, node_id) ==
    IF \E i \in 1..Len(sessions) : sessions[i].node_id = node_id
    THEN CHOOSE i \in 1..Len(sessions) : sessions[i].node_id = node_id
    ELSE 0

\* select id from battle_sessions where node_id = :nid and state = 'running'
\* limit 1: the id found, 0 when there is none
RunningSessionAt(sessions, node_id) ==
    IF \E i \in 1..Len(sessions) :
          sessions[i].node_id = node_id /\ sessions[i].state = "running"
    THEN CHOOSE i \in 1..Len(sessions) :
            sessions[i].node_id = node_id /\ sessions[i].state = "running"
    ELSE 0

\* variant of the actors query that returns every id asked for
present_All(actor_ids) == SeqToSet(actor_ids)

\* select id from actors where id = any(:ids)
present(actor_ids) == SeqToSet(actor_ids) \cap Actors

\* the inserts of start_battle_db with "on conflict (session_id, actor_id)
\* do nothing", for the actors in the order the query returned them
RECURSIVE add_participants(_, _, _)
add_participants(parts, sid, aids) ==
    IF aids = <<>> THEN parts
    ELSE LET aid == Head(aids)
             joined == \E i \in 1..Len(parts) :
                           parts[i].session_id = sid /\ parts[i].actor_id = aid
             parts1 == IF joined THEN parts
                       ELSE Append(parts, [session_id |-> sid, actor_id |-> aid,
                                           team |-> "neutral", initiative |-> 0,
                                           alive |-> TRUE])
         IN  add_participants(parts1, sid, Tail(aids))

\* select ... from battle_participants where session_id = :sid order by join_order
participants_of(parts, sid) == SelectSeq(parts, LAMBDA p : p.session_id = sid)

start_battle_db(node_id, actor_ids) ==
    LET row == RunningSessionAt(battle.sessions, node_id)
        created == row = 0
        sid == IF created THEN Len(battle.sessions) + 1 ELSE row
        sessions1 == IF created
                     THEN Append(battle.sessions,
                                 [node_id |-> node_id, state |-> "running",
                                  turn_index |-> 0])
                     ELSE battle.sessions
    IN  /\ \E aids \in RowOrders(present(actor_ids)) :
              LET parts1 == add_participants(battle.participants, sid, aids)
              IN  /\ battle' = [battle EXCEPT !.sessions = sessions1,
                                              !.participants = parts1]
                  /\ res' = [NoReply EXCEPT !.op = "battle_start",
                                            !.target = node_id,
                                            !.actor_ids = actor_ids,
                                            !.session_id = sid,
                                            !.created = created,
                                            !.participants = participants_of(parts1, sid),
                                            !.events = <<"BATTLE_START">>]
        /\ UNCHANGED <<hp, pos, items, inv, objects, statuses, dead, fn, node, tx>>

\* the actor_ids lists POST /battle/start is given
ActorIdLists ==
    {<<"player">>, <<"npc", "player">>, <<"ghost", "npc", "npc">>}

StartBattle == \E node_id \in Nodes, actor_ids \in ActorIdLists :
                   /\ RunningSessionAt(battle.sessions, node_id) = 0 =>
                         Len(battle.sessions) < MaxSessions
                   /\ start_battle_db(node_id, actor_ids)

\* variant of the purge condition that keeps a skill ending at this turn
skill_expired_Strict(s, turn_index) ==
    s.applied_at_turn + s.duration_turns < turn_index

\* applied_at_turn + duration_turns <= turn_index
skill_expired(s, turn_index) ==
    s.applied_at_turn + s.duration_turns <= turn_index

\* next_turn_db; a session_id with no row changes nothing and is answered
\* not_found
next_turn_db(session_id) ==
    /\ IF session_id \in 1..Len(battle.sessions)
       THEN LET turn_index == battle.sessions[session_id].turn_index + 1
            IN  /\ battle' =
                     [battle EXCEPT
                        !.sessions[session_id].turn_index = turn_index,
                        !.skills = SelectSeq(@, LAMBDA s :
                                      ~(s.session_id = session_id
                                        /\ skill_expired(s, turn_index)))]
                /\ res' = [NoReply EXCEPT
                              !.op = "battle_next_turn", !.session_id = session_id,
                              !.turn_index = turn_index,
                              !.participants =
                                  participants_of(battle.participants, session_id),
                              !.events = <<"BATTLE_NEXT_TURN">>]
       ELSE /\ res' = [NoReply EXCEPT !.op = "battle_next_turn", !.ok = FALSE,
                                      !.session_id = session_id,
                                      !.error = "not_found"]
            /\ UNCHANGED battle
    /\ UNCHANGED <<hp, pos, items, inv, objects, statuses, dead, fn, node, tx>>

NextTurn == \E session_id \in 1..MaxSessions :
                /\ session_id \in 1..Len(battle.sessions) =>
                      battle.sessions[session_id].turn_index < MaxTurnIndex
                /\ next_turn_db(session_id)

\* variant of end_battle_db whose delete has no "where session_id = :sid"
end_battle_db_AllSkills(session_id) ==
    /\ battle' =
         [battle EXCEPT
            !.sessions = [i \in 1..Len(@) |->
                             IF i = session_id THEN [@[i] EXCEPT !.state = "finished"]
                             ELSE @[i]],
            !.skills = <<>>]
    /\ res' = [NoReply EXCEPT !.op = "battle_end", !.session_id = session_id,
                              !.events = <<"BATTLE_END">>]
    /\ UNCHANGED <<hp, pos, items, inv, objects, statuses, dead, fn, node, tx>>

\* end_battle_db and POST /battle/end, which answers ok for every session_id
end_battle_db(session_id) ==
    /\ battle' =
         [battle EXCEPT
            !.sessions = [i \in 1..Len(@) |->
                             IF i = session_id THEN [@[i] EXCEPT !.state = "finished"]
                             ELSE @[i]],
            !.skills = SelectSeq(@, LAMBDA s : s.session_id # session_id)]
    /\ res' = [NoReply EXCEPT !.op = "battle_end", !.session_id = session_id,
                              !.events = <<"BATTLE_END">>]
    /\ UNCHANGED <<hp, pos, items, inv, objects, statuses, dead, fn, node, tx>>

EndBattle == \E session_id \in 1..MaxSessions : end_battle_db(session_id)

\* variant of _is_skill_active_row that ends a skill one turn early
_is_skill_active_row_Short(row, current_turn) ==
    row.applied_at_turn + row.duration_turns > current_turn + 1

\* applied_at_turn + duration_turns > current_turn
_is_skill_active_row(row, current_turn) ==
    row.applied_at_turn + row.duration_turns > current_turn

\* GET /world/skills/{actor_id}/{session_id}: the active rows of the actor in
\* the session, newest first; a session_id with no row is answered 404 (no rows)
list_skills(b, actor_id, session_id) ==
    IF session_id \notin 1..Len(b.sessions) THEN <<>>
    ELSE LET cur_turn == b.sessions[session_id].turn_index
             rows == SelectSeq(b.skills, LAMBDA s :
                         /\ s.actor_id = actor_id /\ s.session_id = session_id
                         /\ _is_skill_active_row(s, cur_turn))
         IN  [i \in 1..Len(rows) |-> rows[Len(rows) + 1 - i]]

\* dao_skills.has_skill_active: its own copy of the test, in SQL
has_skill_active(b, actor_id, session_id, label) ==
    /\ session_id \in 1..Len(b.sessions)
    /\ \E i \in 1..Len(b.skills) :
          /\ b.skills[i].actor_id = actor_id
          /\ b.skills[i].session_id = session_id
          /\ b.skills[i].label = label
          /\ b.skills[i].applied_at_turn + b.skills[i].duration_turns
                > b.sessions[session_id].turn_index

\* POST /world/skills/apply with a label that is not bridged to actor_statuses
apply_skill(actor_id, session_id, label, duration_turns) ==
    /\ IF actor_id \notin Actors
       THEN /\ res' = [NoReply EXCEPT !.op = "skill_apply", !.ok = FALSE,
                                      !.error = "actor_not_found"]
            /\ UNCHANGED battle
       ELSE IF session_id \notin 1..Len(battle.sessions)
       THEN /\ res' = [NoReply EXCEPT !.op = "skill_apply", !.ok = FALSE,
                                      !.error = "battle_session_not_found"]
            /\ UNCHANGED battle
       ELSE LET cur_turn == battle.sessions[session_id].turn_index
                row == [actor_id |-> actor_id, session_id |-> session_id,
                        label |-> label, applied_at_turn |-> cur_turn,
                        duration_turns |-> duration_turns]
                conflict == \E i \in 1..Len(battle.skills) :
                               /\ battle.skills[i].actor_id = actor_id
                               /\ battle.skills[i].session_id = session_id
                               /\ battle.skills[i].label = label
                               /\ battle.skills[i].applied_at_turn = cur_turn
            IN  /\ battle' = IF conflict THEN battle
                             ELSE [battle EXCEPT !.skills = Append(@, row)]
                /\ res' = [NoReply EXCEPT !.op = "skill_apply", !.target = actor_id,
                                          !.session_id = session_id,
                                          !.label = label,
                                          !.duration_turns = duration_turns,
                                          !.turn_index = cur_turn]
    /\ UNCHANGED <<hp, pos, items, inv, objects, statuses, dead, fn, node, tx>>

ApplySkill == \E actor_id \in {"player", "ghost"}, session_id \in 1..MaxSessions,
                 duration_turns \in 1..MaxDuration :
                  /\ Len(battle.skills) < MaxSkills
                  /\ apply_skill(actor_id, session_id, "hypnosis", duration_turns)

\* POST /world/skills/remove: every row of the actor, session and label
remove_skill(actor_id, session_id, label) ==
    /\ battle' = [battle EXCEPT
                     !.skills = SelectSeq(@, LAMBDA s :
                                   ~(/\ s.actor_id = actor_id
                                     /\ s.session_id = session_id
                                     /\ s.label = label))]
    /\ res' = [NoReply EXCEPT !.op = "skill_remove", !.target = actor_id,
                              !.session_id = session_id, !.label = label]
    /\ UNCHANGED <<hp, pos, items, inv, objects, statuses, dead, fn, node, tx>>

RemoveSkill == \E session_id \in 1..MaxSessions :
                   remove_skill("player", session_id, "hypnosis")

InitBattle ==
    /\ hp = [a \in Actors |-> StartHp]
    /\ pos = [player |-> <<0, 0>>, npc |-> <<1, 1>>]
    /\ items = [n_sword |-> NULL]
    /\ inv = [player |-> [right_item |-> None, left_item |-> None, backpack |-> <<>>],
              npc    |-> [right_item |-> None, left_item |-> "n_sword",
                          backpack |-> <<>>]]
    /\ objects = {}
    /\ statuses = apply_status_db(<<>>, "player", "burn", MaxTurns, 4, 1)
    /\ dead = {}
    /\ res = NoReply
    /\ fn = NoCall
    /\ battle = NoBattle
    /\ node = OneNode
    /\ tx = NoTx

NextBattle == StartBattle \/ NextTurn \/ EndBattle \/ ApplySkill \/ RemoveSkill

SpecBattle == InitBattle /\ [][NextBattle]_vars

----------------------------------------------------------------------------
(* Properties of the battle sessions.  A step with res'.op =               *)
(* "battle_start" is one start_battle_db call at the node res'.target,     *)
(* "battle_next_turn" one next_turn_db call on res'.session_id.            *)

\* the running sessions of a node
RunningAt(sessions, node_id) ==
    {i \in 1..Len(sessions) :
        sessions[i].node_id = node_id /\ sessions[i].state = "running"}

\* C18: whatever start, next-turn, end and skill calls ran one after
\* another, no node has two running sessions; a start at a node with a
\* running session returns that session with created = false and leaves
\* every session, its turn_index included, as it was; a start at a node
\* without one stores a new session, running, with turn_index 0, and
\* returns it with created = true.
C18_OneRunningSessionPerNode ==
    /\ [](\A n \in Nodes : Cardinality(RunningAt(battle.sessions, n)) <= 1)
    /\ [][res'.op = "battle_start" =>
            LET running == RunningAt(battle.sessions, res'.target)
            IN  IF running # {}
                THEN /\ res'.session_id \in running
                     /\ ~res'.created
                     /\ battle'.sessions = battle.sessions
                ELSE /\ res'.created
                     /\ res'.session_id = Len(battle.sessions) + 1
                     /\ battle'.sessions =
                           Append(battle.sessions,
                                  [node_id |-> res'.target, state |-> "running",
                                   turn_index |-> 0])
         ]_vars

\* a start reused the running session of a node, advanced twice, that also
\* has a finished session
C18_Witness ==
    /\ res.op = "battle_start" /\ ~res.created
    /\ battle.sessions[res.session_id].turn_index = 2
    /\ battle.sessions[res.session_id].state = "running"
    /\ \E i \in 1..Len(battle.sessions) :
          /\ battle.sessions[i].state = "finished"
          /\ battle.sessions[i].node_id = res.target

\* C19: after a start the participants of the returned session are those
\* it had before, in the same places and with the same team, initiative and
\* alive, followed by every id of actor_ids that is an existing actor and
\* had not joined, each once and with alive = true; an id with no actor is
\* never a participant; the participants of the other sessions are
\* unchanged.
C19_StartAddsExistingActorsOnce ==
    [][res'.op = "battle_start" =>
            LET actor_ids == res'.actor_ids
                sid == res'.session_id
                before == participants_of(battle.participants, sid)
                after == participants_of(battle'.participants, sid)
                joined == {before[i].actor_id : i \in 1..Len(before)}
                added == (SeqToSet(actor_ids) \cap Actors) \ joined
            IN  /\ res'.participants = after
                /\ Len(after) = Len(before) + Cardinality(added)
                /\ \A i \in 1..Len(before) : after[i] = before[i]
                /\ {after[i].actor_id : i \in (Len(before) + 1)..Len(after)} = added
                /\ \A i \in (Len(before) + 1)..Len(after) :
                      /\ after[i].alive
                      /\ after[i].team = "neutral" /\ after[i].initiative = 0
                /\ \A i, j \in 1..Len(after) :
                      after[i].actor_id = after[j].actor_id => i = j
                /\ \A i \in 1..Len(after) : after[i].actor_id \in Actors
                /\ SelectSeq(battle'.participants, LAMBDA p : p.session_id # sid)
                      = SelectSeq(battle.participants, LAMBDA p : p.session_id # sid)
                /\ \A i \in 1..Len(battle.participants) :
                      battle'.participants[i] = battle.participants[i]
      ]_vars

\* a start on a session the player had joined added the npc behind it and
\* left out the id with no actor
C19_Witness ==
    /\ res.op = "battle_start" /\ ~res.created
    /\ Len(res.participants) = 2
    /\ res.participants[1].actor_id = "player"
    /\ res.participants[2].actor_id = "npc" /\ res.participants[2].alive
    /\ participants_of(battle.participants, res.session_id) = res.participants

\* C20: a next-turn call on a stored session raises its turn_index by
\* exactly 1 and deletes exactly the skills of that session with
\* applied_at_turn + duration_turns <= the new turn_index; every other
\* skill and every other session is unchanged; no call lowers a turn_index
\* or raises it by more than 1.
C20_NextTurnAdvancesAndPurges ==
    /\ [][\A i \in 1..Len(battle.sessions) :
             /\ i <= Len(battle'.sessions)
             /\ battle'.sessions[i].turn_index \in
                   {battle.sessions[i].turn_index, battle.sessions[i].turn_index + 1}
         ]_vars
    /\ [][(res'.op = "battle_next_turn" /\ res'.session_id \in 1..Len(battle.sessions)) =>
            LET sid == res'.session_id
                new == battle.sessions[sid].turn_index + 1
            IN  /\ res'.ok /\ res'.turn_index = new
                /\ battle'.sessions =
                      [battle.sessions EXCEPT ![sid].turn_index = new]
                /\ battle'.skills =
                      SelectSeq(battle.skills, LAMBDA s :
                          s.session_id # sid
                          \/ s.applied_at_turn + s.duration_turns > new)
                /\ battle'.participants = battle.participants
         ]_vars

\* a second advance left the session with the one skill that still runs
C20_Witness ==
    /\ res.op = "battle_next_turn" /\ res.ok
    /\ res.turn_index = 2
    /\ battle.sessions[res.session_id].turn_index = 2
    /\ Len(battle.skills) = 1
    /\ battle.skills[1].session_id = res.session_id
    /\ battle.skills[1].applied_at_turn = 1
    /\ battle.skills[1].duration_turns = 2

\* C21: an end_battle_db call on a session sets that session's state to
\* finished and deletes every skill of that session, and leaves as they
\* were: the node and turn_index of that session, every other session,
\* the skills of every other session in their order, the participants,
\* the actor_statuses rows and the hp of every actor.
C21_EndTouchesOnlyItsSession ==
    [][res'.op = "battle_end" =>
          LET sid == res'.session_id
          IN  /\ Len(battle'.sessions) = Len(battle.sessions)
              /\ \A i \in 1..Len(battle.sessions) :
                    IF i = sid
                    THEN /\ battle'.sessions[i].state = "finished"
                         /\ battle'.sessions[i].node_id = battle.sessions[i].node_id
                         /\ battle'.sessions[i].turn_index =
                               battle.sessions[i].turn_index
                    ELSE battle'.sessions[i] = battle.sessions[i]
              /\ \A k \in 1..Len(battle'.skills) :
                    battle'.skills[k].session_id # sid
              /\ battle'.skills =
                    SelectSeq(battle.skills, LAMBDA s : s.session_id # sid)
              /\ battle'.participants = battle.participants
              /\ statuses' = statuses
              /\ hp' = hp
     ]_vars

\* an end call finished a session while a skill of the
\* other session, still running, and the burn of the player are stored
C21_Witness ==
    /\ res.op = "battle_end"
    /\ res.session_id \in 1..Len(battle.sessions)
    /\ battle.sessions[res.session_id].state = "finished"
    /\ \E i \in 1..Len(battle.sessions) : battle.sessions[i].state = "running"
    /\ Len(battle.skills) = 1
    /\ battle.skills[1].session_id # res.session_id
    /\ Len(statuses) = 1

\* C22: a session's state only moves from running to finished.  Every
\* stored session is running or finished; no start, next-turn, end or skill
\* call removes a session, changes its node, or makes a finished session
\* running again; a session that appears is running; and the session a
\* start call returns is running, so a start at a node whose sessions are
\* all finished returns a session that was not stored before.
C22_FinishedStaysFinished ==
    /\ [](\A i \in 1..Len(battle.sessions) :
             battle.sessions[i].state \in {"running", "finished"})
    /\ [][/\ Len(battle'.sessions) >= Len(battle.sessions)
          /\ \A i \in 1..Len(battle.sessions) :
                /\ battle'.sessions[i].node_id = battle.sessions[i].node_id
                /\ battle.sessions[i].state = "finished" =>
                      battle'.sessions[i].state = "finished"
          /\ \A i \in (Len(battle.sessions) + 1)..Len(battle'.sessions) :
                battle'.sessions[i].state = "running"
          /\ res'.op = "battle_start" =>
                /\ battle'.sessions[res'.session_id].state = "running"
                /\ battle'.sessions[res'.session_id].node_id = res'.target
                /\ RunningAt(battle.sessions, res'.target) = {} =>
                      res'.session_id \notin 1..Len(battle.sessions)
         ]_vars

\* a start at a node whose earlier session is finished returned a new
\* running session, and the finished one is still finished
C22_Witness ==
    /\ res.op = "battle_start" /\ res.created
    /\ battle.sessions[res.session_id].state = "running"
    /\ \E i \in 1..Len(battle.sessions) :
          /\ i # res.session_id
          /\ battle.sessions[i].node_id = res.target
          /\ battle.sessions[i].state = "finished"

----------------------------------------------------------------------------
(* Attack requests of any pair of ids (routers/combat.py): the preview and *)
(* the attack, on actors that may stand in different nodes, hold a weapon  *)
(* in either hand, or have no hp left, while a battle session holds both   *)
(* as participants.                                                        *)

\* hand_item = inv["right_item"] or inv["left_item"], then its kind row:
\* the id of the weapon, None without an inventory row, a hand item or a kind
_weapon_in_hand(actor_id) ==
    IF actor_id \notin Actors THEN None
    ELSE LET hand_item == IF inv[actor_id].right_item # None
                          THEN inv[actor_id].right_item
                          ELSE inv[actor_id].left_item
         IN  IF hand_item \in DOMAIN items THEN hand_item ELSE None

\* preview_attack_geometry_db: reads only; the reply holds the weapon's item id
\* and the projected accuracy (0 without a weapon)
preview_attack_geometry_db(attacker_id, target_id) ==
    LET reply == [NoReply EXCEPT !.op = "preview", !.attacker = attacker_id,
                                 !.target = target_id]
        item == _weapon_in_hand(attacker_id)
    IN  /\ res' =
             IF attacker_id \notin Actors
             THEN [reply EXCEPT !.ok = FALSE,
                                !.error = "attacker_not_found_or_no_position"]
             ELSE IF target_id \notin Actors
             THEN [reply EXCEPT !.ok = FALSE,
                                !.error = "target_not_found_or_no_position"]
             ELSE IF node[attacker_id] # node[target_id]
             THEN [reply EXCEPT !.ok = FALSE, !.error = "different_nodes"]
             ELSE IF item = None THEN reply
             ELSE [reply EXCEPT
                      !.item = item,
                      !.accuracy =
                          _estimate_accuracy(
                              _chebyshev_distance(pos[attacker_id], pos[target_id]),
                              _aligned(pos[attacker_id], pos[target_id]),
                              IF KindRow(item).opt_range = 0 THEN 1
                              ELSE KindRow(item).opt_range,
                              KindRow(item).hit_bonus)]
        /\ UNCHANGED <<hp, pos, items, inv, objects, statuses, dead, fn, battle,
                       node, tx>>

\* GET /combat/preview/{attacker_id}/{target_id}
Preview == \E attacker_id \in ActorIds, target_id \in ActorIds :
               preview_attack_geometry_db(attacker_id, target_id)

\* POST /combat/attack/{attacker_id}/{target_id}
DoAttack == \E attacker_id \in ActorIds, target_id \in ActorIds, roll \in {5, 60, 96} :
                perform_attack_db(attacker_id, target_id, roll)

\* the player holds the pistol and the sword, the pistol in the left hand
\* only, or nothing; the npc holds its sword in the left hand and starts
\* with or without hp, in the player's node or in the other one; one
\* running session of the player's node holds both as participants
InitDuel ==
    /\ \E h \in {0, StartHp} : hp = [player |-> StartHp, npc |-> h]
    /\ pos = [player |-> <<0, 0>>, npc |-> <<1, 1>>]
    /\ items = [w_sword |-> NULL, w_pistol |-> StartAmmo, n_sword |-> NULL]
    /\ \E hands \in {<<"w_pistol", "w_sword">>, <<None, "w_pistol">>, <<None, None>>} :
          inv = [player |-> [right_item |-> hands[1], left_item |-> hands[2],
                             backpack |-> <<>>],
                 npc    |-> [right_item |-> None, left_item |-> "n_sword",
                             backpack |-> <<>>]]
    /\ objects = {}
    /\ statuses = <<>>
    /\ dead = {}
    /\ res = NoReply
    /\ fn = NoCall
    /\ battle = [NoBattle EXCEPT
                    !.sessions = <<[node_id |-> "forest", state |-> "running",
                                    turn_index |-> 0]>>,
                    !.participants = add_participants(<<>>, 1, <<"player", "npc">>)]
    /\ \E n \in Nodes : node = [player |-> "forest", npc |-> n]
    /\ tx = NoTx

NextDuel == Preview \/ DoAttack

SpecDuel == InitDuel /\ [][NextDuel]_vars

----------------------------------------------------------------------------
(* Properties of the attack requests.  A step with res'.op = "attack" is   *)
(* one perform_attack_db call of res'.attacker on res'.target.             *)

\* C23: an attack whose attacker id or target id has no actors row, or
\* whose attacker and target stand in different nodes, is answered with
\* ok = false and changes nothing: no charge of any item, no backpack, no
\* hp.
C23_InvalidAttackIsRejected ==
    [][(/\ res'.op = "attack"
        /\ \/ res'.attacker \notin Actors
           \/ res'.target \notin Actors
           \/ node[res'.attacker] # node[res'.target])
       => /\ ~res'.ok
          /\ items' = items /\ inv' = inv /\ hp' = hp
     ]_vars

\* C24: an attack with a weapon, in one node, on a target whose hp is 0 is
\* answered ok with informational events only: no HIT_ROLL, DAMAGE_APPLY or
\* DEATH, no charge of any item and no backpack changed, no hp changed.
C24_DeadTargetIsSoftFailure ==
    [][(/\ res'.op = "attack"
        /\ res'.attacker \in Actors /\ res'.target \in Actors
        /\ node[res'.attacker] = node[res'.target]
        /\ _weapon_in_hand(res'.attacker) # None
        /\ hp[res'.target] = 0)
       => /\ res'.ok
          /\ SeqToSet(res'.events) \cap {"HIT_ROLL", "DAMAGE_APPLY", "DEATH"} = {}
          /\ items' = items /\ inv' = inv /\ hp' = hp
     ]_vars

\* the alive flags of an actor's battle_participants rows
AliveFlags(b, actor_id) ==
    {b.participants[i].alive : i \in {k \in 1..Len(b.participants) :
                                         b.participants[k].actor_id = actor_id}}

\* C25: an actor dies exactly once.  An attack emits DEATH exactly when it
\* takes its target's hp from a positive value to 0, so no later attack on
\* that target emits it again; at that attack every participant row of the
\* target goes from alive to not alive; and a participant row that is not
\* alive never becomes alive again.
C25_DeathExactlyOnce ==
    [][/\ (res'.op = "attack" /\ res'.target \in Actors) =>
             LET kills == hp[res'.target] > 0 /\ hp'[res'.target] = 0
             IN  /\ ("DEATH" \in SeqToSet(res'.events)) <=> kills
                 /\ kills => /\ AliveFlags(battle, res'.target) = {TRUE}
                             /\ AliveFlags(battle', res'.target) = {FALSE}
       /\ \A i \in 1..Len(battle.participants) :
             ~battle.participants[i].alive =>
                 /\ i <= Len(battle'.participants)
                 /\ ~battle'.participants[i].alive
     ]_vars

\* C26: the weapon of an attack by an actor is the item of its right hand,
\* or the item of its left hand when the right hand is empty: an attack
\* answers NO_WEAPON only when both hands are empty, and an attack that is
\* resolved uses the weapon preview_attack_geometry_db reports for the
\* same attacker.
C26_WeaponIsRightThenLeft ==
    [][(res'.op = "attack" /\ res'.attacker \in Actors /\ res'.target \in Actors) =>
          LET right == inv[res'.attacker].right_item
              left == inv[res'.attacker].left_item
          IN  /\ ("NO_WEAPON" \in SeqToSet(res'.events)) <=>
                     (right = None /\ left = None)
              /\ res'.item = _weapon_in_hand(res'.attacker)
              /\ res'.item = IF right # None THEN right ELSE left
     ]_vars

----------------------------------------------------------------------------
(* Specification of the armor and modifier functions: Init draws the       *)
(* arguments of apply_armor_reduction and the actor_statuses rows that     *)
(* get_status_combat_mods aggregates; the two actions apply them.           *)

\* damage_mult_attacker values of a meta, in quarters: -1.0, 0.0, 0.25, 0.5,
\* 1.5, 2.5, 5.0
MetaMults4 == {-4, 0, 1, 2, 6, 10, 20}

\* a row of the player whose meta holds damage_mult_attacker only
MultRow(mult4, turns_left) ==
    [actor_id |-> "player", status_id |-> "m", turns_left |-> turns_left,
     stacks |-> 1, intensity4 |-> 4,
     meta |-> [NoMeta EXCEPT !.damage_mult_attacker4 = mult4]]

\* the tables drawn: no row, one row, two rows, and an expired row (turns_left
\* 0) next to a live one
MultTables ==
    {<<>>}
    \cup {<<MultRow(m, 1)>> : m \in MetaMults4}
    \cup {<<MultRow(m, 1), MultRow(n, 2)>> : m \in MetaMults4, n \in MetaMults4}
    \cup {<<MultRow(20, 0), MultRow(m, 1)>> : m \in MetaMults4}

InitMods ==
    /\ hp = [a \in Actors |-> StartHp]
    /\ pos = [player |-> <<0, 0>>, npc |-> <<1, 1>>]
    /\ items = InitItems
    /\ inv = InitInv("w_sword")
    /\ objects = PickupObjects
    /\ \E rows \in MultTables : statuses = rows
    /\ dead = {}
    /\ res = NoReply
    /\ \E d \in 0..MaxDamage, l \in -2..7 :
          fn = [f |-> "args", args |-> [base_damage |-> d, armor_level |-> l],
                out |-> 0]
    /\ battle = NoBattle
    /\ node = OneNode
    /\ tx = NoTx

ArmorReduction ==
    /\ fn.f = "args"
    /\ fn' = [fn EXCEPT !.f = "apply_armor_reduction",
                        !.out = apply_armor_reduction(fn.args.base_damage,
                                                      fn.args.armor_level)]
    /\ UNCHANGED <<hp, pos, items, inv, objects, statuses, dead, res, battle, node, tx>>

CombatMods ==
    /\ fn.f = "args"
    /\ fn' = [fn EXCEPT !.f = "get_status_combat_mods",
                        !.out = get_status_combat_mods(statuses, "player", "npc")]
    /\ UNCHANGED <<hp, pos, items, inv, objects, statuses, dead, res, battle, node, tx>>

NextMods == ArmorReduction \/ CombatMods

SpecMods == InitMods /\ [][NextMods]_vars

\* C27: for a damage of at least 1 and any level, apply_armor_reduction is
\* max(1, damage - floor(damage * clamp(level, 0, 5) / 10)): at least 1, at
\* most the damage, and a level below 0 or above 5 gives what 0 or 5 gives.
C27_ArmorReductionFormula ==
    (fn.f = "apply_armor_reduction" /\ fn.args.base_damage >= 1) =>
        LET d == fn.args.base_damage
            l == fn.args.armor_level
            clamped == IF l < 0 THEN 0 ELSE IF l > 5 THEN 5 ELSE l
            cut == CHOOSE q \in 0..d : 10 * q <= d * clamped /\ d * clamped < 10 * (q + 1)
            expected == IF d - cut < 1 THEN 1 ELSE d - cut
        IN  /\ fn.out = expected
            /\ fn.out >= 1 /\ fn.out <= d
            /\ l < 0 => fn.out = apply_armor_reduction(d, 0)
            /\ l > 5 => fn.out = apply_armor_reduction(d, 5)

\* the reduction of the largest damage at a level above 5 is the one of level 5,
\* with a fraction dropped
C27_Witness ==
    /\ fn.f = "apply_armor_reduction"
    /\ fn.args.armor_level = 7
    /\ fn.args.base_damage = MaxDamage - 1
    /\ fn.out = (MaxDamage - 1) - ((MaxDamage - 1) * 5) \div 10
    /\ ((MaxDamage - 1) * 5) % 10 # 0

\* the damage_mult_attacker values, in quarters, of the attacker's rows
\* with turns_left > 0, and their product as a fraction <<num, den>>
ActiveMults(rows, attacker_id) ==
    LET live == SelectSeq(rows, LAMBDA r : r.actor_id = attacker_id /\ r.turns_left > 0)
    IN  [i \in 1..Len(live) |-> live[i].meta.damage_mult_attacker4]

RECURSIVE MultProduct(_)
MultProduct(ms) ==
    IF ms = <<>> THEN <<1, 1>>
    ELSE <<Head(ms) * MultProduct(Tail(ms))[1], 4 * MultProduct(Tail(ms))[2]>>

\* C28 as stated: damage_mult_attacker is the product of the active
\* statuses' values clamped to [0.1, 5.0]: a product above 5.0 gives 5.0, one
\* below 0.1 gives 0.1.
C28_MultIsClampedAsStated ==
    fn.f = "get_status_combat_mods" =>
        LET p == MultProduct(ActiveMults(statuses, "player"))
            m == fn.out
        IN  IF p[1] > 5 * p[2] THEN m.mult_num = 5 * m.mult_den
            ELSE IF 10 * p[1] < p[2] THEN 10 * m.mult_num = m.mult_den
            ELSE m.mult_num * p[2] = p[1] * m.mult_den

\* C28: damage_mult_attacker is always within [0.1, 5.0]: it is the product
\* of the active statuses' values when that product is within the range,
\* and 1.0 when the product is above 5.0 or below 0.1.
C28_MultIsProductOrOne ==
    fn.f = "get_status_combat_mods" =>
        LET p == MultProduct(ActiveMults(statuses, "player"))
            m == fn.out
        IN  /\ 10 * m.mult_num >= m.mult_den /\ m.mult_num <= 5 * m.mult_den
            /\ IF p[1] > 5 * p[2] \/ 10 * p[1] < p[2]
               THEN m.mult_num = m.mult_den
               ELSE m.mult_num * p[2] = p[1] * m.mult_den

\* two live rows with 2.5 each: the product 6.25 is above 5.0 and the
\* multiplier returned is 1.0
C28_Witness ==
    /\ fn.f = "get_status_combat_mods"
    /\ statuses = <<MultRow(10, 1), MultRow(10, 2)>>
    /\ fn.out.mult_num = fn.out.mult_den

----------------------------------------------------------------------------
(* Two POST /combat/attack requests of the player resolved at the same     *)
(* time.  Each request runs perform_attack_db in a session of its own      *)
(* (get_session), one SQL statement per step; the engine is created with   *)
(* the default isolation (READ COMMITTED): a statement reads what is       *)
(* committed, an UPDATE or DELETE of a row another open transaction wrote  *)
(* waits for that transaction and then works on the committed row, and     *)
(* the writes of a resolution become visible at its commit.  items and     *)
(* inv are the committed tables; tx[p].upd and tx[p].del are the charges   *)
(* written and the rows deleted by resolution p and not yet committed.     *)

Procs == {1, 2}

IdleTx ==
    [pc |-> "idle", target |-> "", item |-> None, roll |-> 0, cur_ch |-> NULL,
     ammo |-> None, ch |-> NULL, upd |-> <<>>, del |-> {}, events |-> <<>>,
     left |-> NULL]

\* another open transaction holds the row lock of items row i
RowLocked(p, i) ==
    \E q \in Procs \ {p} : i \in DOMAIN tx[q].upd \cup tx[q].del

\* the attacker and target queries and the geometry checks (dao.py 2235-2305),
\* which read nothing an attack writes except hp
BeginAttack(p) ==
    \E target \in Actors, roll \in {5, 60} :
        LET item == RightHandItem("player")
        IN  /\ tx[p].pc = "idle"
            /\ item # None
            /\ PreconditionFailure(pos["player"], pos[target], item) = ""
            /\ tx' = [tx EXCEPT ![p] = [IdleTx EXCEPT !.pc = "charges",
                                                      !.target = target,
                                                      !.item = item, !.roll = roll]]
            /\ UNCHANGED <<hp, pos, items, inv, objects, statuses, dead, res, fn,
                           battle, node>>

\* the reply of a resolution that ends at the ammo check: rollback
NoAmmoReply(p) ==
    /\ res' = StartOnly("player", tx[p].target, tx[p].item, "NO_AMMO", "")
    /\ tx' = [tx EXCEPT ![p] = [IdleTx EXCEPT !.pc = "done"]]

\* cur_ch = await _get_item_charges(session, item_id) and the branch on it;
\* for a weapon without a counter, _weapon_ammo_type_for_item
ReadCharges(p) ==
    LET cur_ch == _get_item_charges(items, tx[p].item)
    IN  /\ tx[p].pc = "charges"
        /\ IF cur_ch # NULL
           THEN IF cur_ch <= 0
                THEN NoAmmoReply(p)
                ELSE /\ tx' = [tx EXCEPT ![p].pc = "spend", ![p].cur_ch = cur_ch]
                     /\ UNCHANGED res
           ELSE /\ tx' = [tx EXCEPT ![p].pc =
                             IF _weapon_ammo_type_for_item(tx[p].item) # ""
                             THEN "find" ELSE "finish"]
                /\ UNCHANGED res
        /\ UNCHANGED <<hp, pos, items, inv, objects, statuses, dead, fn, battle, node>>

\* left = await _spend_one_charge(session, item_id)
SpendCharge(p) ==
    LET item == tx[p].item
        left == _spend_one_charge(items, item)[item]
    IN  /\ tx[p].pc = "spend"
        /\ ~RowLocked(p, item)
        /\ tx' = [tx EXCEPT
                    ![p].pc = "finish",
                    ![p].upd = [i \in {item} |-> left],
                    ![p].left = left,
                    ![p].events = <<"CONSUME">> \o
                        (IF left = 0 THEN <<"AMMO_EMPTY", "RELOAD_HINT">> ELSE <<>>)]
        /\ UNCHANGED <<hp, pos, items, inv, objects, statuses, dead, res, fn,
                       battle, node>>

\* ammo = await _find_ammo_in_backpack(session, attacker_id, weapon_ammo)
FindAmmo(p) ==
    LET found == _find_ammo_in_backpack(items, inv["player"].backpack,
                     _weapon_ammo_type_for_item(tx[p].item))
    IN  /\ tx[p].pc = "find"
        /\ IF found = {}
           THEN NoAmmoReply(p)
           ELSE /\ \E ammo \in found :
                      tx' = [tx EXCEPT ![p].pc = "consume", ![p].ammo = ammo]
                /\ UNCHANGED res
        /\ UNCHANGED <<hp, pos, items, inv, objects, statuses, dead, fn, battle, node>>

\* _consume_one_ammo_from_backpack, first statement: SELECT charges
ReadAmmo(p) ==
    /\ tx[p].pc = "consume"
    /\ tx' = IF tx[p].ammo \notin DOMAIN items
             THEN [tx EXCEPT ![p].pc = "finish", ![p].left = NULL,
                             ![p].events = <<"AMMO_CONSUME", "AMMO_DEPLETED">>]
             ELSE [tx EXCEPT ![p].pc = "take", ![p].ch = items[tx[p].ammo]]
    /\ UNCHANGED <<hp, pos, items, inv, objects, statuses, dead, res, fn, battle, node>>

\* _consume_one_ammo_from_backpack, the writes: DELETE the stack and remove it
\* from the backpack when the charges read were NULL or <= 1, otherwise
\* UPDATE items SET charges = charges - 1 RETURNING charges
TakeAmmo(p) ==
    LET ammo == tx[p].ammo
        stored == ammo \in DOMAIN items
    IN  /\ tx[p].pc = "take"
        /\ ~RowLocked(p, ammo)
        /\ tx' = IF tx[p].ch = NULL \/ tx[p].ch <= 1
                 THEN [tx EXCEPT ![p].pc = "finish", ![p].del = {ammo},
                                 ![p].left = 0,
                                 ![p].events = <<"AMMO_CONSUME", "AMMO_DEPLETED">>]
                 ELSE [tx EXCEPT ![p].pc = "finish",
                                 ![p].upd = IF stored
                                            THEN [i \in {ammo} |-> items[ammo] - 1]
                                            ELSE <<>>,
                                 ![p].left = IF stored THEN items[ammo] - 1 ELSE NULL,
                                 ![p].events = <<"AMMO_CONSUME">>]
        /\ UNCHANGED <<hp, pos, items, inv, objects, statuses, dead, res, fn,
                       battle, node>>

\* the rest of perform_attack_db, from "старт атаки" to the commit
FinishAttack(p) ==
    LET t == tx[p]
        its1 == [i \in DOMAIN items \ t.del |->
                    IF i \in DOMAIN t.upd THEN t.upd[i] ELSE items[i]]
        bp1 == SelectSeq(inv["player"].backpack, LAMBDA i : i \notin t.del)
    IN  /\ t.pc = "finish"
        /\ Resolve("player", t.target, t.item, t.roll, its1, bp1, t.events, t.left)
        /\ tx' = [tx EXCEPT ![p] = [IdleTx EXCEPT !.pc = "done"]]
        /\ UNCHANGED <<pos, objects, statuses, dead, fn, battle, node>>

\* the player holds the pistol (own counter), the bow (arrows of the
\* backpack) or the sword, next to the npc
InitRace ==
    /\ hp = [a \in Actors |-> StartHp]
    /\ pos = [player |-> <<0, 0>>, npc |-> <<1, 1>>]
    /\ \E c \in 0..StartAmmo, a \in 1..StartAmmo :
          items = [w_sword |-> NULL, w_pistol |-> c, w_bow |-> NULL,
                   arrows1 |-> a, bullets1 |-> StartAmmo]
    /\ \E w \in HandWeapons :
          inv = [player |-> [right_item |-> w, left_item |-> None,
                             backpack |-> <<"arrows1", "bullets1">>],
                 npc    |-> [right_item |-> None, left_item |-> None,
                             backpack |-> <<>>]]
    /\ objects = {}
    /\ statuses = <<>>
    /\ dead = {}
    /\ res = NoReply
    /\ fn = NoCall
    /\ battle = NoBattle
    /\ node = OneNode
    /\ tx = [p \in Procs |-> IdleTx]

NextRace ==
    \E p \in Procs :
        \/ BeginAttack(p)
        \/ ReadCharges(p)
        \/ SpendCharge(p)
        \/ FindAmmo(p)
        \/ ReadAmmo(p)
        \/ TakeAmmo(p)
        \/ FinishAttack(p)

SpecRace == InitRace /\ [][NextRace]_vars

\* C29: no update of a charge counter is lost when two attack resolutions
\* of the same attacker interleave statement by statement.  No counter is
\* ever below 0 and no ammo stack of the backpack is ever stored with 0
\* charges; a resolution that passed the ammo check of a self-charged
\* weapon commits a counter that was at least 1 and is exactly 1 lower
\* afterwards; one that took a unit from the backpack commits a total of
\* matching charges that was at least 1 and is exactly 1 lower afterwards.
\* So the resolutions that pass the check never outnumber the charges.
C29_NoLostChargeUpdates ==
    /\ [](\A i \in DOMAIN items : items[i] # NULL => items[i] >= 0)
    /\ [](\A i \in SeqToSet(inv["player"].backpack) \cap DOMAIN items :
             items[i] # 0)
    /\ [][\A p \in Procs :
            (tx[p].pc = "finish" /\ tx'[p].pc = "done") =>
                /\ Has(tx[p].events, "CONSUME") =>
                      /\ items[tx[p].item] >= 1
                      /\ items'[tx[p].item] = items[tx[p].item] - 1
                /\ Has(tx[p].events, "AMMO_CONSUME") =>
                      /\ TotalAmmo(items, inv["player"].backpack, tx[p].item) >= 1
                      /\ TotalAmmo(items', inv'["player"].backpack, tx[p].item)
                            = TotalAmmo(items, inv["player"].backpack, tx[p].item) - 1
         ]_vars

----------------------------------------------------------------------------
(* Reactive counter: POST /combat/retaliate/{npc_id}/{target_id}           *)
(* (routers/combat.py) calls npc_reactive_counter_db, which dao.py does    *)
(* not hold; it is modelled from section 4.6 of the specification.  A      *)
(* modifier is a row of actor_statuses with turns_left 1 whose meta holds  *)
(* the keys get_status_combat_mods reads.                                  *)

\* the meta of the three modifiers; section 4.6 gives the signs only
ModifierMeta ==
    [press   |-> [NoMeta EXCEPT !.accuracy_mod_attacker = 10,
                                !.damage_bonus_attacker = 1],
     rage    |-> [NoMeta EXCEPT !.accuracy_mod_attacker = 10,
                                !.damage_mult_attacker4 = 6],
     stagger |-> [NoMeta EXCEPT !.accuracy_mod_attacker = -10]]

\* variant of CounterModifier whose lowest band ends below 5
CounterModifier_Below5(received_damage, rage) ==
    IF received_damage < 5 THEN "press"
    ELSE IF received_damage <= 11 THEN ""
    ELSE IF rage THEN "rage" ELSE "stagger"

\* the band of the damage received and its modifier, "" for none; rage is
\* the outcome of the draw with probability 0.20
CounterModifier(received_damage, rage) ==
    IF received_damage <= 5 THEN "press"
    ELSE IF received_damage <= 11 THEN ""
    ELSE IF rage THEN "rage" ELSE "stagger"

\* the 1-turn modifier written for an actor: an upsert on (actor_id, status_id)
ApplyModifier(rows, actor_id, status_id) ==
    LET i == RowIndex(rows, actor_id, status_id)
        row == [actor_id |-> actor_id, status_id |-> status_id, turns_left |-> 1,
                stacks |-> 1, intensity4 |-> 4, meta |-> ModifierMeta[status_id]]
    IN  IF status_id = "" THEN rows
        ELSE IF i = 0 THEN Append(rows, row)
        ELSE [rows EXCEPT ![i] = row]

\* the modifier of the band for the defender, then the defender's attack on
\* the attacker
npc_reactive_counter_db(npc_id, target_id, received_damage, rage, roll) ==
    /\ statuses' = ApplyModifier(statuses, npc_id,
                       CounterModifier(received_damage, rage))
    /\ AttackResolution(npc_id, target_id, roll)

\* POST /combat/retaliate/{npc_id}/{target_id}; fn keeps the request
retaliate(npc_id, target_id, received_damage, rage, roll) ==
    /\ npc_reactive_counter_db(npc_id, target_id, received_damage, rage, roll)
    /\ fn' = [f |-> "retaliate",
              args |-> [npc_id |-> npc_id, target_id |-> target_id,
                        received_damage |-> received_damage],
              out |-> 0]
    /\ UNCHANGED <<pos, objects, dead, battle, node, tx>>

\* the received_damage values of the requests: both sides of the two band limits
ReceivedDamages == {5, 6, 11, 12}

Retaliate ==
    \E received_damage \in ReceivedDamages, rage \in BOOLEAN, roll \in {60, 96} :
        retaliate("npc", "player", received_damage, rage, roll)

\* both actors hold a sword in the right hand and stand next to each other
InitCounter ==
    /\ hp = [a \in Actors |-> StartHp]
    /\ pos = [player |-> <<0, 0>>, npc |-> <<1, 1>>]
    /\ items = [w_sword |-> NULL, n_sword |-> NULL]
    /\ inv = [player |-> [right_item |-> "w_sword", left_item |-> None,
                          backpack |-> <<>>],
              npc    |-> [right_item |-> "n_sword", left_item |-> None,
                          backpack |-> <<>>]]
    /\ objects = {}
    /\ statuses = <<>>
    /\ dead = {}
    /\ res = NoReply
    /\ fn = NoCall
    /\ battle = NoBattle
    /\ node = OneNode
    /\ tx = NoTx

NextCounter == Retaliate

SpecCounter == InitCounter /\ [][NextCounter]_vars

\* a 1-turn modifier status_id was written for actor_id between two tables:
\* the later one holds it with turns_left 1 and every other row as before
ModifierApplied(before, after, actor_id, status_id) ==
    LET others(rows) == SelectSeq(rows, LAMBDA r :
                            ~(r.actor_id = actor_id /\ r.status_id = status_id))
    IN  /\ \E i \in 1..Len(after) : /\ after[i].actor_id = actor_id
                                    /\ after[i].status_id = status_id
                                    /\ after[i].turns_left = 1
        /\ others(after) = others(before)
        /\ Len(after) - Len(others(after)) = 1

\* C30: a retaliate request of a defender against an attacker puts the
\* damage received in exactly one band: up to 5 a 1-turn press modifier is
\* written for the defender, from 6 to 11 no modifier is written, from 12 on
\* exactly one of rage and stagger is written for the defender, and nothing
\* else in the modifiers changes; in every band the reply is that of one
\* attack of the defender on the attacker, and no hp other than the
\* attacker's changes.
C30_CounterBandsThenAttack ==
    [][fn'.f = "retaliate" =>
          LET d == fn'.args.received_damage
              npc_id == fn'.args.npc_id
              target_id == fn'.args.target_id
          IN  /\ d <= 5 => ModifierApplied(statuses, statuses', npc_id, "press")
              /\ (6 <= d /\ d <= 11) => statuses' = statuses
              /\ d >= 12 => \/ ModifierApplied(statuses, statuses', npc_id, "rage")
                            \/ ModifierApplied(statuses, statuses', npc_id, "stagger")
              /\ res'.op = "attack"
              /\ res'.attacker = npc_id /\ res'.target = target_id
              /\ \A a \in Actors \ {target_id} : hp'[a] = hp[a]
     ]_vars

\* a retaliation for 12 damage wrote rage for the npc, which already had
\* press, and the npc's attack on the player reached the hit roll
C30_Witness ==
    /\ fn.f = "retaliate" /\ fn.args.received_damage = 12
    /\ \E i, j \in 1..Len(statuses) :
          /\ i < j
          /\ statuses[i].actor_id = "npc" /\ statuses[i].status_id = "press"
          /\ statuses[j].actor_id = "npc" /\ statuses[j].status_id = "rage"
          /\ statuses[j].turns_left = 1
    /\ res.op = "attack" /\ res.attacker = "npc" /\ res.target = "player"
    /\ Has(res.events, "HIT_ROLL")

----------------------------------------------------------------------------
(* Specification of the critical hit: attacks of the player on the adjacent *)
(* or distant npc with a sword (crit_chance 5, default crit_mult), a bow    *)
(* (crit_mult 1.5) and a dagger whose crit_chance 70 is above its accuracy  *)

\* values random.randint(1, 100) is let to return around both thresholds
CritRolls == {5, 6, 50, 51, 70, 71, 90, 91}

CritWeapons == {"w_sword", "w_bow", "w_dagger"}

CritAttack == \E roll \in CritRolls : perform_attack_db("player", "npc", roll)

InitCrit ==
    /\ hp = [a \in Actors |-> StartHp]
    /\ \E c \in NpcCells : pos = [player |-> <<0, 0>>, npc |-> c]
    /\ items = [i \in {"w_sword", "w_bow", "w_dagger", "n_sword", "arrows1"} |->
                   IF i = "arrows1" THEN StartAmmo ELSE NULL]
    /\ \E w \in CritWeapons :
          inv = [player |-> [right_item |-> w, left_item |-> None,
                             backpack |-> <<"arrows1">>],
                 npc    |-> [right_item |-> None, left_item |-> "n_sword",
                             backpack |-> <<>>]]
    /\ objects = {}
    /\ statuses = <<>>
    /\ dead = {}
    /\ res = NoReply
    /\ fn = NoCall
    /\ battle = NoBattle
    /\ node = OneNode
    /\ tx = NoTx

NextCrit == CritAttack

SpecCrit == InitCrit /\ [][NextCrit]_vars

\* C31: an attack that reaches its roll uses that one roll for the hit and
\* for the critical hit: ATTACK_CRIT is among the events iff roll <= accuracy
\* and roll <= crit_chance; on a crit the damage before resistance is
\* round(base_damage * crit_mult), with crit_mult 2.0 when the kind defines
\* none, and the resistance is applied to that product; without a crit it is
\* the base damage; a miss carries no ATTACK_CRIT and changes no hp.
C31_CritReusesTheRoll ==
    [][(res'.op = "attack" /\ Has(res'.events, "HIT_ROLL"))
        => LET k == Kinds[KindOf[res'.item]]
               base == IF k.damage = NULL THEN 5 ELSE k.damage
               mult4 == IF k.crit_mult4 = NULL THEN 8 ELSE k.crit_mult4
               hit == res'.roll <= res'.accuracy
               crit == hit /\ res'.roll <= k.crit_chance
               resist4 == Resistances[res'.target][k.damage_type]
           IN  /\ Has(res'.events, "ATTACK_CRIT") <=> crit
               /\ Len(SelectSeq(res'.events, LAMBDA e : e = "HIT_ROLL")) = 1
               /\ Len(SelectSeq(res'.events, LAMBDA e : e = "ATTACK_CRIT")) <= 1
               /\ crit => /\ 4 * res'.base >= base * mult4 - 2
                          /\ 4 * res'.base <= base * mult4 + 2
                          /\ (2 * base * mult4) % 8 = 4 => res'.base % 2 = 0
               /\ (hit /\ ~crit) => res'.base = base
               /\ hit => /\ res'.final = Max(1, (res'.base * resist4) \div 4)
                         /\ hp'[res'.target]
                              = Max(hp[res'.target] - res'.final, 0)
               /\ ~hit => /\ Last(res'.events) = "ATTACK_MISS"
                          /\ hp' = hp]_vars

\* a dagger crit on the npc: 3 * 2.5 = 7.5 rounds to 8 before the pierce
\* resistance 0.5 makes it 4
C31_Witness ==
    /\ res.op = "attack" /\ res.item = "w_dagger"
    /\ Has(res.events, "ATTACK_CRIT")
    /\ res.base = 8 /\ res.final = 4
    /\ hp["npc"] = StartHp - 4

\* a dagger miss whose roll is within the crit chance: no crit
C31_WitnessMissUnderCritChance ==
    /\ res.op = "attack" /\ res.item = "w_dagger"
    /\ res.roll > res.accuracy
    /\ res.roll <= Kinds["dagger"].crit_chance
    /\ Last(res.events) = "ATTACK_MISS"

\* a sword crit with the default multiplier 2.0: 5 becomes 10
C31_WitnessDefaultMult ==
    /\ res.op = "attack" /\ res.item = "w_sword"
    /\ Has(res.events, "ATTACK_CRIT")
    /\ res.base = 10

----------------------------------------------------------------------------
(* Specification of the line rasterization: _bresenham_line over every     *)
(* pair of cells with coordinates in -MaxCoord..MaxCoord                    *)

LineCoords == (-MaxCoord)..MaxCoord

InitLine ==
    /\ hp = [a \in Actors |-> StartHp]
    /\ pos = [player |-> <<0, 0>>, npc |-> <<1, 1>>]
    /\ items = InitItems
    /\ inv = InitInv("w_sword")
    /\ objects = PickupObjects
    /\ statuses = <<>>
    /\ dead = {}
    /\ res = NoReply
    /\ \E ax \in LineCoords, ay \in LineCoords, bx \in LineCoords, by \in LineCoords :
          fn = [f |-> "args", args |-> [a |-> <<ax, ay>>, b |-> <<bx, by>>],
                out |-> <<>>]
    /\ battle = NoBattle
    /\ node = OneNode
    /\ tx = NoTx

\* list(_bresenham_line(ax, ay, bx, by))
LineCells ==
    /\ fn.f = "args"
    /\ fn' = [fn EXCEPT !.f = "_bresenham_line",
                        !.out = _bresenham_line(fn.args.a, fn.args.b)]
    /\ UNCHANGED <<hp, pos, items, inv, objects, statuses, dead, res, battle, node, tx>>

NextLine == LineCells

SpecLine == InitLine /\ [][NextLine]_vars

\* C32: for all cells a and b the generator ends and has yielded exactly
\* max(|dx|, |dy|) cells: none of them is a, the last one is b, each is at
\* Chebyshev distance 1 from the one before it (the first from a), and for
\* a = b nothing is yielded.
C32_LineHasDistanceCells ==
    fn.f = "_bresenham_line" =>
        LET a == fn.args.a
            b == fn.args.b
            line == fn.out
            adx == IF b[1] >= a[1] THEN b[1] - a[1] ELSE a[1] - b[1]
            ady == IF b[2] >= a[2] THEN b[2] - a[2] ELSE a[2] - b[2]
            d == IF adx >= ady THEN adx ELSE ady
            Near(p, q) == /\ p # q
                          /\ p[1] - q[1] \in {-1, 0, 1}
                          /\ p[2] - q[2] \in {-1, 0, 1}
        IN  /\ Len(line) = d
            /\ \A i \in 1..Len(line) : line[i] # a
            /\ d > 0 => line[Len(line)] = b
            /\ \A i \in 1..Len(line) :
                   Near(line[i], IF i = 1 THEN a ELSE line[i - 1])
            /\ a = b => line = <<>>

\* a shallow line into the upper left quadrant: three cells, two of them
\* diagonal steps
C32_Witness ==
    /\ fn.f = "_bresenham_line"
    /\ fn.args.a = <<0, 0>> /\ fn.args.b = <<-3, 2>>
    /\ fn.out = << <<-1, 1>>, <<-2, 1>>, <<-3, 2>> >>

----------------------------------------------------------------------------
(* Specification of the line of sight: check_los between every pair of     *)
(* cells of a small node, for every placement of at most MaxBlocks         *)
(* blocking objects, the end cells included                                *)

LosCells == (0..MaxCoord) \X (0..(MaxCoord - 1))

BlockPlacements == {B \in SUBSET LosCells : Cardinality(B) <= MaxBlocks}

InitLos ==
    /\ hp = [a \in Actors |-> StartHp]
    /\ pos = [player |-> <<0, 0>>, npc |-> <<1, 1>>]
    /\ items = InitItems
    /\ inv = InitInv("w_sword")
    /\ objects = PickupObjects
    /\ statuses = <<>>
    /\ dead = {}
    /\ res = NoReply
    /\ \E a \in LosCells, b \in LosCells, B \in BlockPlacements :
          fn = [f |-> "args", args |-> [blocks |-> B, a |-> a, b |-> b],
                out |-> FALSE]
    /\ battle = NoBattle
    /\ node = OneNode
    /\ tx = NoTx

\* check_los(session, node_id, ax, ay, bx, by)
CheckLos ==
    /\ fn.f = "args"
    /\ fn' = [fn EXCEPT !.f = "check_los",
                        !.out = check_los(fn.args.blocks, fn.args.a, fn.args.b)]
    /\ UNCHANGED <<hp, pos, items, inv, objects, statuses, dead, res, battle, node, tx>>

NextLos == CheckLos

SpecLos == InitLos /\ [][NextLos]_vars

\* C33: check_los is true iff no cell of the line from a to b before its
\* final cell b blocks: a blocking object on b never fails the check, one on
\* any cell yielded before b always does, and one on a changes nothing.
C33_LosIgnoresOnlyTheEnds ==
    fn.f = "check_los" =>
        LET a == fn.args.a
            b == fn.args.b
            line == _bresenham_line(a, b)
            inner == {line[i] : i \in 1..(Len(line) - 1)}
        IN  /\ fn.out <=> inner \cap fn.args.blocks = {}
            /\ a \notin inner /\ b \notin inner
            /\ fn.out = check_los(fn.args.blocks \ {a, b}, a, b)

\* both end cells hold a blocking object, the two cells between them do
\* not: the line of sight is clear
C33_Witness ==
    /\ fn.f = "check_los"
    /\ fn.args.a = <<0, 0>> /\ fn.args.b = <<3, 2>>
    /\ fn.args.blocks = {<<0, 0>>, <<3, 2>>}
    /\ fn.out

\* one blocking object on a cell between the two: no line of sight
C33_WitnessBlocked ==
    /\ fn.f = "check_los"
    /\ fn.args.a = <<0, 0>> /\ fn.args.b = <<3, 2>>
    /\ fn.args.blocks \cap {<<0, 0>>, <<3, 2>>} = {}
    /\ Cardinality(fn.args.blocks) = 1
    /\ ~fn.out

\* C34: for every pair of cells a, b and every placement of blocking objects
\* that leaves a and b free, the line of sight from a to b equals the line
\* of sight from b to a.
C34_LosIsSymmetric ==
    (fn.f = "check_los" /\ fn.args.a \notin fn.args.blocks
                        /\ fn.args.b \notin fn.args.blocks)
        => fn.out = check_los(fn.args.blocks, fn.args.b, fn.args.a)

----------------------------------------------------------------------------
(* Order of the events of one attack resolution                            *)

\* the places of event e in the list
Places(events, e) == {i \in 1..Len(events) : events[i] = e}

\* the event names of perform_attack_db the order is stated for
OrderedEvents ==
    {"ATTACK_START", "CONSUME", "AMMO_CONSUME", "AMMO_EMPTY", "AMMO_DEPLETED",
     "HIT_ROLL", "ATTACK_MISS", "ATTACK_HIT", "ATTACK_CRIT", "RESIST_APPLY",
     "DAMAGE_APPLY", "DEATH", "LOS_BLOCKED", "ATTACK_OUT_OF_RANGE", "NO_AMMO"}

\* every place of X is below every place of Y
AllBefore(X, Y) == \A i \in X, j \in Y : i < j

\* C35: in the event list of a resolution that has a weapon and a target,
\* ATTACK_START is first; CONSUME / AMMO_CONSUME, then AMMO_EMPTY /
\* AMMO_DEPLETED, come before HIT_ROLL; HIT_ROLL is followed by exactly one
\* of ATTACK_MISS and ATTACK_HIT; ATTACK_CRIT, RESIST_APPLY and DAMAGE_APPLY
\* occur only between HIT_ROLL and ATTACK_HIT, in that order; DEATH occurs
\* only as the last event and only after ATTACK_HIT; a list with
\* LOS_BLOCKED, ATTACK_OUT_OF_RANGE or NO_AMMO has no HIT_ROLL.
C35_EventsAreOrdered ==
    [][res'.op = "attack" =>
        LET E == res'.events
            at == [e \in OrderedEvents |-> Places(E, e)]
            P(e) == at[e]
            Once(e) == Cardinality(P(e)) <= 1
        IN  /\ (res'.item # None /\ res'.ok) => (E # <<>> /\ P("ATTACK_START") = {1})
            /\ P("ATTACK_START") \subseteq {1}
            /\ \A e \in {"CONSUME", "AMMO_CONSUME", "AMMO_EMPTY", "AMMO_DEPLETED"} :
                   /\ Once(e)
                   /\ P(e) # {} => P("HIT_ROLL") # {}
                   /\ AllBefore(P("ATTACK_START"), P(e))
                   /\ AllBefore(P(e), P("HIT_ROLL"))
            /\ \A i \in P("AMMO_EMPTY") : i > 1 /\ E[i - 1] = "CONSUME"
            /\ \A i \in P("AMMO_DEPLETED") : i > 1 /\ E[i - 1] = "AMMO_CONSUME"
            /\ Once("HIT_ROLL") /\ Once("ATTACK_MISS") /\ Once("ATTACK_HIT")
            /\ P("HIT_ROLL") # {} =>
                   /\ (P("ATTACK_MISS") # {}) # (P("ATTACK_HIT") # {})
                   /\ AllBefore(P("HIT_ROLL"), P("ATTACK_MISS"))
                   /\ AllBefore(P("HIT_ROLL"), P("ATTACK_HIT"))
            /\ (P("ATTACK_MISS") # {} \/ P("ATTACK_HIT") # {}) => P("HIT_ROLL") # {}
            /\ \A e \in {"ATTACK_CRIT", "RESIST_APPLY", "DAMAGE_APPLY"} :
                   /\ Once(e)
                   /\ P(e) # {} => (P("HIT_ROLL") # {} /\ P("ATTACK_HIT") # {})
                   /\ AllBefore(P("HIT_ROLL"), P(e))
                   /\ AllBefore(P(e), P("ATTACK_HIT"))
            /\ AllBefore(P("ATTACK_CRIT"), P("RESIST_APPLY"))
            /\ AllBefore(P("RESIST_APPLY"), P("DAMAGE_APPLY"))
            /\ \A i \in P("DEATH") :
                   i = Len(E) /\ i > 1 /\ E[i - 1] = "ATTACK_HIT"
            /\ \A e \in {"LOS_BLOCKED", "ATTACK_OUT_OF_RANGE", "NO_AMMO"} :
                   P(e) # {} => P("HIT_ROLL") = {}]_vars

\* the longest list: the pistol's last charge, a critical hit and the death
\* of the target
C35_Witness ==
    /\ res.op = "attack"
    /\ res.events = <<"ATTACK_START", "CONSUME", "AMMO_EMPTY", "RELOAD_HINT",
                      "HIT_ROLL", "ATTACK_CRIT", "RESIST_APPLY", "DAMAGE_APPLY",
                      "ATTACK_HIT", "DEATH">>

----------------------------------------------------------------------------
(* Conservation of ammunition by the reload                                *)

\* the charges held by a set of items, a missing counter counting as 0
RECURSIVE Units(_, _)
Units(its, ids) ==
    IF ids = {} THEN 0
    ELSE LET a == CHOOSE x \in ids : TRUE
         IN  (IF its[a] = NULL THEN 0 ELSE its[a]) + Units(its, ids \ {a})

\* C36: every reload call, successful or rejected, leaves the sum of the
\* weapon's charges and of the charges of the matching stacks of the
\* caller's backpack as it was; it creates no item, it deletes only matching
\* stacks all of whose charges it took, and a rejected call changes nothing.
C36_ReloadConservesUnits ==
    [][res'.op = "reload" =>
        IF res'.item = None THEN items' = items /\ inv' = inv
        ELSE LET w == res'.item
                 bp == inv[res'.attacker].backpack
                 S == {bp[i] : i \in 1..Len(bp)} \cap
                          {s \in DOMAIN items \ {w} :
                              Kinds[KindOf[s]].ammo_type = Kinds[KindOf[w]].ammo_type}
                 gone == DOMAIN items \ DOMAIN items'
             IN  /\ Units(items, {w} \cup S) = Units(items', {w} \cup (S \ gone))
                 /\ DOMAIN items' \subseteq DOMAIN items
                 /\ w \notin gone
                 /\ \A s \in gone :
                       /\ s \in S /\ items[s] > 0
                       /\ \E k \in 1..Len(res'.used) :
                              /\ res'.used[k].ammo_item_id = s
                              /\ res'.used[k].taken = items[s]
                       /\ \A i \in 1..Len(inv'[res'.attacker].backpack) :
                              inv'[res'.attacker].backpack[i] # s
                 /\ \A s \in S \ gone : items[s] > 0 => items'[s] > 0
                 /\ \A i \in DOMAIN items' \ (S \cup {w}) : items'[i] = items[i]
                 /\ ~res'.ok => (items' = items /\ inv' = inv)]_vars

\* a reload of the empty rifle that took one stack whole and a part of the
\* other: the first is deleted, the second is kept with what is left
C36_Witness ==
    /\ res.op = "reload" /\ res.ok /\ res.item = "w_rifle"
    /\ res.loaded = MagCap /\ items["w_rifle"] = MagCap
    /\ Len(res.used) = 2
    /\ ("bullets1" \in DOMAIN items) # ("bullets2" \in DOMAIN items)

----------------------------------------------------------------------------
(* Lifetime of a session skill                                             *)

StoredSkills(b) == {b.skills[i] : i \in 1..Len(b.skills)}

\* list_skills and has_skill_active both report the row k
ReportedActive(b, k) ==
    /\ \E i \in 1..Len(list_skills(b, k.actor_id, k.session_id)) :
          list_skills(b, k.actor_id, k.session_id)[i] = k
    /\ has_skill_active(b, k.actor_id, k.session_id, k.label)

\* the row an accepted apply request asks for
AppliedSkill(r) ==
    [actor_id |-> r.target, session_id |-> r.session_id, label |-> r.label,
     applied_at_turn |-> r.turn_index, duration_turns |-> r.duration_turns]

\* every stored skill is within its turns t .. t+d-1 and reported active
StoredSkillsAreActive ==
    \A k \in StoredSkills(battle) :
        LET turn_index == battle.sessions[k.session_id].turn_index
        IN  /\ k.applied_at_turn <= turn_index
            /\ turn_index <= k.applied_at_turn + k.duration_turns - 1
            /\ ReportedActive(battle, k)

\* the step is a remove request for the row k
Removes(r, k) ==
    /\ r.op = "skill_remove" /\ r.target = k.actor_id
    /\ r.session_id = k.session_id /\ r.label = k.label

\* in a session that stays running, a stored skill that is not removed on
\* request is kept by every step that leaves turn_index below t + d and
\* deleted by the one that does not; after an advance every stored skill of
\* the session passes the test
SkillsLeaveAtTheirTurn ==
    /\ \A k \in StoredSkills(battle) :
          (battle'.sessions[k.session_id].state = "running" /\ ~Removes(res', k)) =>
              (k \in StoredSkills(battle')
                 <=> battle'.sessions[k.session_id].turn_index
                       < k.applied_at_turn + k.duration_turns)
    /\ (res'.op = "battle_next_turn" /\ res'.ok) =>
          \A k \in StoredSkills(battle') :
              k.session_id = res'.session_id =>
                  _is_skill_active_row(k, res'.turn_index)

----------------------------------------------------------------------------
(* A finished session                                                      *)

\* C38: once end_battle_db has finished a session, no later call changes its
\* turn_index, and no later state holds a session skill of it.
C38_FinishedSessionIsFrozen ==
    /\ [](\A k \in StoredSkills(battle) :
              battle.sessions[k.session_id].state # "finished")
    /\ [][\A sid \in 1..Len(battle.sessions) :
              battle.sessions[sid].state = "finished" =>
                  battle'.sessions[sid].turn_index
                      = battle.sessions[sid].turn_index]_vars

----------------------------------------------------------------------------
(* Specification of concurrent battle starts: two requests, each in its    *)
(* own session and transaction (db.get_session), under READ COMMITTED: a   *)
(* statement reads the committed rows and the rows its own transaction     *)
(* wrote.  battle holds the committed rows; the rows a transaction has     *)
(* inserted and not committed are in tx.                                   *)

IdleStart ==
    [pc |-> "idle", node_id |-> "", actor_ids |-> <<>>, row |-> 0, aids |-> <<>>]

\* select id from battle_sessions where node_id = :nid and state = 'running'
LookupRunning(p) ==
    /\ tx[p].pc = "idle"
    /\ \E node_id \in Nodes, actor_ids \in ActorIdLists :
          LET row == RunningSessionAt(battle.sessions, node_id)
              creating == {q \in Procs \ {p} : tx[q].pc # "idle" /\ tx[q].row = 0}
          IN  /\ row = 0 => Len(battle.sessions) + Cardinality(creating) < MaxSessions
              /\ tx' = [tx EXCEPT ![p] = [IdleStart EXCEPT
                           !.pc = "looked", !.node_id = node_id,
                           !.actor_ids = actor_ids, !.row = row]]
    /\ UNCHANGED <<hp, pos, items, inv, objects, statuses, dead, res, fn, battle, node>>

\* the insert into battle_sessions when no row was found, and the inserts
\* into battle_participants; an insert of a (session_id, actor_id) that
\* another open transaction has inserted waits for that transaction
InsertRows(p) ==
    /\ tx[p].pc = "looked"
    /\ \E aids \in RowOrders(present(tx[p].actor_ids)) :
          /\ \A q \in Procs \ {p} :
                 (tx[q].pc = "inserted" /\ tx[q].row # 0 /\ tx[q].row = tx[p].row)
                     => SeqToSet(tx[q].aids) \cap SeqToSet(aids) = {}
          /\ tx' = [tx EXCEPT ![p].pc = "inserted", ![p].aids = aids]
    /\ UNCHANGED <<hp, pos, items, inv, objects, statuses, dead, res, fn, battle, node>>

\* session.commit() and the select of the participants that follows it
CommitStart(p) ==
    LET t == tx[p]
        created == t.row = 0
        sid == IF created THEN Len(battle.sessions) + 1 ELSE t.row
        sessions1 == IF created
                     THEN Append(battle.sessions,
                                 [node_id |-> t.node_id, state |-> "running",
                                  turn_index |-> 0])
                     ELSE battle.sessions
        parts1 == add_participants(battle.participants, sid, t.aids)
    IN  /\ t.pc = "inserted"
        /\ battle' = [battle EXCEPT !.sessions = sessions1, !.participants = parts1]
        /\ res' = [NoReply EXCEPT !.op = "battle_start", !.target = t.node_id,
                                  !.actor_ids = t.actor_ids, !.session_id = sid,
                                  !.created = created,
                                  !.participants = participants_of(parts1, sid),
                                  !.events = <<"BATTLE_START">>]
        /\ tx' = [tx EXCEPT ![p] = IdleStart]
        /\ UNCHANGED <<hp, pos, items, inv, objects, statuses, dead, fn, node>>

InitStart ==
    /\ hp = [a \in Actors |-> StartHp]
    /\ pos = [player |-> <<0, 0>>, npc |-> <<1, 1>>]
    /\ items = [n_sword |-> NULL]
    /\ inv = [player |-> [right_item |-> None, left_item |-> None, backpack |-> <<>>],
              npc    |-> [right_item |-> None, left_item |-> "n_sword",
                          backpack |-> <<>>]]
    /\ objects = {}
    /\ statuses = <<>>
    /\ dead = {}
    /\ res = NoReply
    /\ fn = NoCall
    /\ battle = NoBattle
    /\ node = OneNode
    /\ tx = [p \in Procs |-> IdleStart]

NextStart ==
    \E p \in Procs :
        \/ LookupRunning(p)
        \/ InsertRows(p)
        \/ CommitStart(p)

SpecStart == InitStart /\ [][NextStart]_vars

\* C39: whatever the interleaving of two start_battle_db calls for one
\* node, the committed rows never hold two running sessions of that node.
C39_OneRunningSessionUnderConcurrency ==
    \A n \in Nodes :
        Cardinality({i \in 1..Len(battle.sessions) :
                        /\ battle.sessions[i].node_id = n
                        /\ battle.sessions[i].state = "running"}) <= 1

============================================================================
